---------------------------- MODULE Spec2Model ----------------------------
(*****************************************************************************)
(* A model of the interactive particle tree:                                 *)
(*                                                                           *)
(*   - the scene component (ChristmasTree.vue): the dispersion pair, the     *)
(*     wheel and control-panel handlers, the per-frame hover resolution      *)
(*     of animate, the click / pull-out / close flow of the cards and the    *)
(*     theme and upload handlers;                                            *)
(*   - the particle engine (ParticleSystem.ts): generation, the instanced    *)
(*     meshes, update / updateList / updateSnow / updateAura, the entrance   *)
(*     tweens and updateColors;                                              *)
(*   - the cards (OrnamentSystem): createOrnaments, update, updateTexture;   *)
(*   - the image store (ornamentStore.ts): updateOrnamentImage and           *)
(*     getOrnamentSrc;                                                       *)
(*   - the stardust pool (StardustSystem): spawn, spawnTrail, update;        *)
(*   - the component's life: the window listeners of init, the whole frame   *)
(*     (ease, hover, the three updates, render) and onUnmounted.             *)
(*                                                                           *)
(* Numbers.  The code computes in doubles.  The model keeps every real       *)
(* quantity on a grid: dispersion in hundredths, densities and speeds in     *)
(* tenths, scales in thousandths, particle positions in cells of 12 world    *)
(* units, card positions in cells of 0.5 world unit.  A step                 *)
(* "x += (d - x) * k" is rounded away from zero (StepToward): the gap to     *)
(* the goal shrinks in every step, as it does with doubles down to a         *)
(* resolution far below anything a claim speaks of, and never overshoots.    *)
(* Math.random() is a choice among the fractions r / RandDen, r < RandDen.   *)
(*                                                                           *)
(* Vectors.  The engine treats x, y and z of a particle by three copies of   *)
(* the same statement; the model keeps one coordinate of each particle       *)
(* vector.  A card's position and scale are kept as triples <<x, y, z>>,     *)
(* since normalize() mixes the coordinates.                                  *)
(*                                                                           *)
(* Tweens.  gsap is a set of tweens advanced by a tick; a tween's value at   *)
(* a tick is its ease applied to the fraction of its duration elapsed, and   *)
(* its onComplete runs in the tick that ends it.                             *)
(*****************************************************************************)
EXTENDS Integers, Sequences, FiniteSets, TLC

(***************************************************************************)
(* Grids and bounds                                                        *)
(***************************************************************************)
\* the upper clamp of onWheel, 1.5
DispMax == 150
\* dispersion above which animate switches auto-rotation off, 0.1
ExplodedAbove == 10
\* onWheel: delta = deltaY * 0.001, i.e. deltaY / WheelDiv grid steps
WheelDiv == 10
\* animate: current += (target - current) * 0.05, i.e. / EaseDiv
EaseDiv == 20
\* number of cards of the scene (ornamentImages)
NumCards == 2
\* number of distinct points of the hit volume a ray can report
NumPoints == 1

Null == <<"null", 0>>

Abs(n) == IF n < 0 THEN -n ELSE n

\* ceil(n / d) for n >= 0, d > 0
CeilDiv(n, d) == (n + d - 1) \div d

(* x + (goal - x) / div on the grid, the step rounded away from zero.      *)
StepToward(x, goal, div) ==
    IF goal >= x THEN x + CeilDiv(goal - x, div)
                 ELSE x - CeilDiv(x - goal, div)


(***************************************************************************)
(* ChristmasTree.vue: the scene graph the ray cast and the hover walk see  *)
(***************************************************************************)
Cards == 1..NumCards

\* OrnamentSystem.createOrnaments: one root mesh per card, with a frame and
\* an enlarged hit box as its children
CardRoot(c) == <<"mesh", c>>
CardFrame(c) == <<"frame", c>>
CardHitBox(c) == <<"hitBox", c>>
hitMesh == <<"hitMesh", 0>>
scene == <<"scene", 0>>
group == <<"group", 0>>

CardRoots == {CardRoot(c) : c \in Cards}
CardFrames == {CardFrame(c) : c \in Cards}
CardHitBoxes == {CardHitBox(c) : c \in Cards}
SceneObjects == {scene, group, hitMesh} \cup CardRoots \cup CardFrames \cup CardHitBoxes

\* Object3D.parent, as set by scene.add, group.add and mesh.add
Parent(o) ==
    IF o \in CardFrames \cup CardHitBoxes THEN CardRoot(o[2])
    ELSE IF o \in CardRoots THEN group
    ELSE IF o \in {group, hitMesh} THEN scene
    ELSE Null

\* userData.isOrnament: set on the root mesh and on the hit box, not on the
\* frame
IsOrnament(o) == o \in CardRoots \cup CardHitBoxes

\* userData.parent: the hit box's reference to its card; undefined elsewhere
UserDataParent(o) == IF o \in CardHitBoxes THEN CardRoot(o[2]) ELSE Null

\* intersectObjects([...ornamentSystem.getObjects(), hitMesh], true): the
\* objects a ray can report, children included
RayTargets == CardRoots \cup CardFrames \cup CardHitBoxes \cup {hitMesh}

HitPoints == {<<"point", k>> : k \in 1..NumPoints}

\* the deltaY values of the wheel events, and the values the control panel
\* hands to handleControlUpdate (in hundredths)
WheelDeltas == {-500, 500}
ControlValues == {-20, 200}

VARIABLES
    dispersionState,   \* [current, target], in hundredths
    autoRotate,        \* the auto-rotate flag the user configured (a ref)
    controls,          \* [autoRotate]: OrbitControls
    hoveredObject,     \* the hover target recorded for onClick, or Null
    mouse3D,           \* the pointer-in-world position, or Null
    cursor,            \* document.body.style.cursor
    viewerVisible,     \* the viewer overlay is shown
    selectedOrnament,  \* the card handed to the viewer, or Null
    walkEnded,         \* the last frame's walk up the parents came to an end
    lastEvent          \* [op, arg]: the handler that ran last and its input,
                       \* arg a pair <<name, value>> or the frame's hit object

treeVars == <<dispersionState, autoRotate, controls, hoveredObject, mouse3D,
              cursor, viewerVisible, selectedOrnament, walkEnded, lastEvent>>

\* the state init() leaves behind
TreeInit ==
    /\ dispersionState = [current |-> 0, target |-> 0]
    /\ autoRotate = TRUE
    /\ controls = [autoRotate |-> TRUE]
    /\ hoveredObject = Null
    /\ mouse3D = Null
    /\ cursor = ""
    /\ viewerVisible = FALSE
    /\ selectedOrnament = Null
    /\ walkEnded = TRUE
    /\ lastEvent = [op |-> "init", arg |-> Null]

\* Math.max(0, Math.min(1.5, t))
ClampTarget(t) ==
    LET lo == IF t < DispMax THEN t ELSE DispMax
    IN IF lo > 0 THEN lo ELSE 0

\* onWheel without its clamp
WheelTargetUnclamped(target, deltaY) == target + deltaY \div WheelDiv

\* onWheel: the new dispersionState.target
WheelTarget(target, deltaY) == ClampTarget(target + deltaY \div WheelDiv)

onWheel(deltaY) ==
    /\ dispersionState' =
         [dispersionState EXCEPT !.target = WheelTarget(@, deltaY)]
    /\ lastEvent' = [op |-> "wheel", arg |-> <<"deltaY", deltaY>>]
    /\ UNCHANGED <<autoRotate, controls, hoveredObject, mouse3D, cursor,
                   viewerVisible, selectedOrnament, walkEnded>>

\* handleControlUpdate: the new dispersionState.target
ControlTarget(dispersion) == dispersion

handleControlUpdate(dispersion) ==
    /\ dispersionState' =
         [dispersionState EXCEPT !.target = ControlTarget(dispersion)]
    /\ lastEvent' = [op |-> "control", arg |-> <<"dispersion", dispersion>>]
    /\ UNCHANGED <<autoRotate, controls, hoveredObject, mouse3D, cursor,
                   viewerVisible, selectedOrnament, walkEnded>>

handleAutoRotateUpdate(val) ==
    /\ autoRotate' = val
    /\ controls' = [controls EXCEPT !.autoRotate = val]
    /\ lastEvent' = [op |-> "autoRotate", arg |-> <<"val", IF val THEN 1 ELSE 0>>]
    /\ UNCHANGED <<dispersionState, hoveredObject, mouse3D, cursor,
                   viewerVisible, selectedOrnament, walkEnded>>

\* the easing written with = in place of +=
EaseCurrentAssigned(current, target) == StepToward(0, target - current, EaseDiv)

\* animate: dispersionState.current += (target - current) * 0.05
EaseCurrent(current, target) == StepToward(current, target, EaseDiv)

\* animate: the auto-rotation adjustment made before the ray cast
AdjustAutoRotate(current, before) ==
    IF current > ExplodedAbove THEN FALSE
    ELSE IF hoveredObject = Null /\ selectedOrnament = Null THEN autoRotate
    ELSE before

\* animate: the loop that walks up from the hit object until it meets an
\* object flagged isOrnament or runs out of parents.  fuel counts the
\* iterations left; a walk that uses them all has not ended.
RECURSIVE WalkUp(_, _)
WalkUp(target, fuel) ==
    IF fuel = 0 THEN [target |-> target, isOrnament |-> FALSE, ended |-> FALSE]
    ELSE IF IsOrnament(target)
         THEN [target |-> target, isOrnament |-> TRUE, ended |-> TRUE]
    ELSE IF Parent(target) # Null THEN WalkUp(Parent(target), fuel - 1)
    ELSE [target |-> target, isOrnament |-> FALSE, ended |-> TRUE]

\* the hover target taken to be the flagged object itself
ResolveRootSelf(target) == target

\* animate: hoveredObject = target.userData.parent || target
ResolveRoot(target) ==
    IF UserDataParent(target) # Null THEN UserDataParent(target) ELSE target

\* animate, one frame.  hit is the nearest intersection of the frame's ray
\* (Null: the ray hits nothing) and point its hit point.
animate(hit, point) ==
    LET current == EaseCurrent(dispersionState.current, dispersionState.target)
        adjusted == AdjustAutoRotate(current, controls.autoRotate)
        w == WalkUp(hit, Cardinality(SceneObjects))
    IN /\ dispersionState' = [dispersionState EXCEPT !.current = current]
       /\ IF hit # Null
          THEN /\ walkEnded' = w.ended
               /\ IF w.isOrnament
                  THEN /\ cursor' = "pointer"
                       /\ hoveredObject' = ResolveRoot(w.target)
                       /\ controls' = [controls EXCEPT !.autoRotate = FALSE]
                       /\ UNCHANGED mouse3D
                  ELSE IF hit = hitMesh
                  THEN /\ mouse3D' = point
                       /\ cursor' = ""
                       /\ controls' = [controls EXCEPT !.autoRotate = autoRotate]
                       /\ hoveredObject' = hitMesh
                  ELSE /\ hoveredObject' = hit
                       /\ controls' = [controls EXCEPT !.autoRotate = adjusted]
                       /\ UNCHANGED <<mouse3D, cursor>>
          ELSE /\ hoveredObject' = Null
               /\ mouse3D' = Null
               /\ cursor' = ""
               /\ controls' = [controls EXCEPT !.autoRotate = TRUE]
               /\ UNCHANGED walkEnded
       /\ lastEvent' = [op |-> "frame", arg |-> hit]
       /\ UNCHANGED <<autoRotate, viewerVisible, selectedOrnament>>

(***************************************************************************)
(* ParticleSystem.ts: the particle records, the population lists and the   *)
(* instanced meshes.  Tree-attached and aura particles keep the x          *)
(* coordinate of their vectors in cells of 12 world units, snow keeps y    *)
(* (the coordinate its update is about) in cells of 5 world units.  Scales *)
(* are in thousandths, densities and speeds in tenths, random draws r      *)
(* stand for r / RandDen.  currentX is the x of a flake in world units; it *)
(* is followed through the wrap of updateSnow only, the sway of            *)
(* 0.01 * snowSpeed a frame being far below what a claim speaks of.        *)
(***************************************************************************)
\* particleCount of generateTreeData
TreeCount == 1
\* trunkCount, snowCount, auraCount
TrunkCount == 2
SnowCount == 1
AuraCount == 1
\* the denominator of the random draws
RandDen == 3
\* the number of ticks gsap takes for a tween
TweenTicks == 2
\* updateList: currentPosition += (desired - currentPosition) * 0.1
LerpDiv == 10
\* updateSnow: a flake below y = -10 is put back to y = 30
SnowFloor == -2
SnowTop == 6
\* animateEntrance: the snow starts at y = 15
SnowEruptFrom == 3

RandSet == {0, 2}

PopulationNames ==
    {"foliage", "decoration", "trunk", "snow", "aura", "gift", "candy"}

\* generateTreeData: randType (in percent) picks the type
TypeDraws == {5, 12, 17, 50}
TypeOf(randType) ==
    IF randType < 10 THEN "decoration"
    ELSE IF randType < 15 THEN "gift"
    ELSE IF randType < 20 THEN "candy"
    ELSE "foliage"

\* a scale the generators can draw for the type
BaseScaleOf(type) ==
    CASE type = "foliage" -> 50
      [] type = "decoration" -> 120
      [] type = "gift" -> 200
      [] type = "candy" -> 150
      [] type = "trunk" -> 80
      [] type = "snow" -> 50
      [] OTHER -> 40

\* a colour the generators can give the type
InitialColorOf(type) ==
    CASE type = "foliage" -> "#0f3b0f..#2ecc71"
      [] type = "decoration" -> "#FFD700"
      [] type = "gift" -> "#D42426"
      [] type = "candy" -> "#ffffff"
      [] type = "trunk" -> "#4a3c31"
      [] type = "snow" -> "#ffffff"
      [] OTHER -> "#ffd700"

\* the ParticleData literal of a generator
NewParticle(id, type, target, current, velocity, scale) ==
    [id |-> id, type |-> type,
     targetPosition |-> target, currentPosition |-> current, currentX |-> 0,
     explosionVelocity |-> velocity,
     baseScale |-> BaseScaleOf(type), currentScale |-> scale,
     color |-> InitialColorOf(type)]

\* generateTreeData: the list a tree particle of the type is pushed to
TreeListOf(type) == type

\* this.particles.push(p); this.<list>.push(p): the list holds a reference,
\* the particle's index in this.particles
Push(st, p, list) ==
    [particles |-> Append(st.particles, p),
     lists |-> [st.lists EXCEPT ![list] = Append(@, Len(st.particles) + 1)]]

RECURSIVE generateTreeData(_, _, _)
generateTreeData(st, draws, i) ==
    IF i >= TreeCount THEN st
    ELSE LET type == TypeOf(draws[i + 1])
             p == NewParticle(i, type, 0, 1, 1, 0)
         IN generateTreeData(Push(st, p, TreeListOf(type)), draws, i + 1)

RECURSIVE generateTrunkData(_, _)
generateTrunkData(st, i) ==
    IF i >= TrunkCount THEN st
    ELSE generateTrunkData(
             Push(st, NewParticle(-1, "trunk", 0, 1, 1, 0), "trunk"), i + 1)

RECURSIVE generateSnowData(_, _)
generateSnowData(st, i) ==
    IF i >= SnowCount THEN st
    ELSE generateSnowData(
             Push(st, NewParticle(-2, "snow", 0, 0, -1, BaseScaleOf("snow")),
                  "snow"), i + 1)

RECURSIVE generateAuraData(_, _)
generateAuraData(st, i) ==
    IF i >= AuraCount THEN st
    ELSE generateAuraData(
             Push(st, NewParticle(-3, "aura", 1, 1, 1, 0), "aura"), i + 1)

\* the seven lists, empty, and this.particles = []
NoParticles ==
    [particles |-> <<>>, lists |-> [n \in PopulationNames |-> <<>>]]

\* the data the constructor generates
Generated(draws) ==
    generateAuraData(
        generateSnowData(
            generateTrunkData(generateTreeData(NoParticles, draws, 0), 0), 0), 0)

\* a slot of an instance matrix: the position and the scale it encodes and
\* the particle it was composed from (0: from no particle)
ZeroMatrix == [position |-> 0, scale |-> 0, particle |-> 0]
IdentityMatrix == [position |-> 0, scale |-> 1000, particle |-> 0]
MatrixOf(position, scale, ref) ==
    [position |-> position, scale |-> scale, particle |-> ref]

\* createMeshes: the population whose length sizes meshes[k], in push order
CreateOrder ==
    <<"foliage", "decoration", "trunk", "snow", "aura", "gift", "candy">>

\* initInstances: the mesh index updateMesh is handed with the list
InitMeshOf(list) ==
    CASE list = "foliage" -> 0
      [] list = "decoration" -> 1
      [] list = "trunk" -> 2
      [] list = "snow" -> 3
      [] list = "aura" -> 4
      [] list = "gift" -> 5
      [] OTHER -> 6

createMeshes(st) ==
    [k \in 0..6 |-> [j \in 1..Len(st.lists[CreateOrder[k + 1]]) |-> IdentityMatrix]]

\* setMatrixAt(i, m), i counted from 0; three.js writes into a typed array,
\* where a write outside the array is dropped
SetMatrixAt(mesh, i, m) ==
    IF i + 1 \in DOMAIN mesh THEN [mesh EXCEPT ![i + 1] = m] ELSE mesh

RECURSIVE updateMesh(_, _, _, _)
updateMesh(parts, list, mesh, i) ==
    IF i >= Len(list) THEN mesh
    ELSE LET p == parts[list[i + 1]]
         IN updateMesh(parts, list,
                SetMatrixAt(mesh, i,
                    MatrixOf(p.currentPosition, p.currentScale, list[i + 1])),
                i + 1)

initInstances(st, ms) ==
    [k \in 0..6 |->
        LET bound == {n \in PopulationNames : InitMeshOf(n) = k}
        IN IF bound = {} THEN ms[k]
           ELSE LET n == CHOOSE n \in bound : TRUE
                IN updateMesh(st.particles, st.lists[n], ms[k], 0)]

VARIABLES
    config,      \* the component's refs twinkleSpeed, snowDensity, snowSpeed,
                 \* treeDensity and decorationDensity
    particles,   \* this.particles: the particle records, in push order
    lists,       \* the seven population lists; an entry is a reference, the
                 \* index of the record in particles
    meshes,      \* this.meshes: index 0..6 -> the slots of the instance matrix
    tweens,      \* the tweens gsap holds
    entered,     \* animateEntrance has been called
    lastCall,    \* the arguments of the last call of update
    touched      \* per list, the indices the last update read from the list
                 \* and wrote to its mesh, counted from 0

psVars == <<particles, lists, meshes, tweens, entered, lastCall, touched>>

NoTouch == [n \in PopulationNames |-> [reads |-> {}, writes |-> {}]]

\* the refs' initial values, and update's defaults
DefaultConfig ==
    [twinkleSpeed |-> 10, snowDensity |-> 5, snowSpeed |-> 10,
     treeDensity |-> 10, decorationDensity |-> 10]

NoCall ==
    [op |-> "none", time |-> 0, mousePos |-> Null, dispersion |-> 0,
     twinkleSpeed |-> 10, snowDensity |-> 5, snowSpeed |-> 10,
     treeDensity |-> 10, decorationDensity |-> 10]

\* new ParticleSystem(scene), the random type draws being draws
Constructed(draws) ==
    LET st == Generated(draws)
    IN /\ particles = st.particles
       /\ lists = st.lists
       /\ meshes = initInstances(st, createMeshes(st))
       /\ tweens = {}
       /\ entered = FALSE
       /\ lastCall = NoCall
       /\ touched = NoTouch

PSInit == \E draws \in [1..TreeCount -> TypeDraws] : Constructed(draws)

(***************************************************************************)
(* animateEntrance and the gsap ticker                                     *)
(***************************************************************************)
RECURSIVE Pow(_, _)
Pow(b, n) == IF n = 0 THEN 1 ELSE b * Pow(b, n - 1)

\* the eases run as their "in" variants: back.in dips below the start value
EasedIn(ease, step) ==
    LET in(n) == (1000 * Pow(step, n)) \div Pow(TweenTicks, n)
    IN CASE ease = "power1.out" -> in(2)
         [] ease = "power2.out" -> in(3)
         [] ease = "power3.out" -> in(4)
         [] OTHER -> (2702 * Pow(step, 3)) \div Pow(TweenTicks, 3)
                     - (1702 * Pow(step, 2)) \div Pow(TweenTicks, 2)

\* the eased progress, in thousandths, after step of TweenTicks ticks
Eased(ease, step) ==
    LET rest == TweenTicks - step
        out(n) == 1000 - (1000 * Pow(rest, n)) \div Pow(TweenTicks, n)
    IN CASE ease = "power1.out" -> out(2)
         [] ease = "power2.out" -> out(3)
         [] ease = "power3.out" -> out(4)
         [] OTHER -> 1000 - (2702 * Pow(rest, 3)) \div Pow(TweenTicks, 3)
                          + (1702 * Pow(rest, 2)) \div Pow(TweenTicks, 2)

\* gsap.to(target, {prop: to, ease, delay})
NewTween(ref, prop, to, ease, delay) ==
    [ref |-> ref, prop |-> prop, to |-> to, ease |-> ease, delay |-> delay,
     started |-> FALSE, from |-> 0, step |-> 0]

\* [...foliage, ...decoration, ...trunk, ...gift, ...candy]
AllTreeParticles(ls) ==
    ls["foliage"] \o ls["decoration"] \o ls["trunk"] \o ls["gift"] \o ls["candy"]

SeqRange(s) == {s[i] : i \in DOMAIN s}

\* the y values the eruption can aim a flake at
EruptTargets == {4}

\* animateEntrance: the snow is put at the top centre with scale 0
EntranceParticles(parts, ls) ==
    [ref \in DOMAIN parts |->
        IF ref \in SeqRange(ls["snow"])
        THEN [parts[ref] EXCEPT !.currentPosition = SnowEruptFrom,
                                !.currentScale = 0]
        ELSE parts[ref]]

\* animateEntrance: the tweens it starts; erupt is the eruption target drawn
\* for each flake
EntranceTweens(parts, ls, erupt) ==
    {NewTween(ref, "currentPosition", parts[ref].targetPosition,
              "power3.out", 0) : ref \in SeqRange(AllTreeParticles(ls))}
    \cup {NewTween(ref, "currentScale", parts[ref].baseScale,
                   "back.out(1.7)", 0) : ref \in SeqRange(AllTreeParticles(ls))}
    \cup {NewTween(ref, "currentPosition", erupt[ref],
                   "power2.out", 0) : ref \in SeqRange(ls["snow"])}
    \cup {NewTween(ref, "currentScale", parts[ref].baseScale,
                   "power1.out", 0) : ref \in SeqRange(ls["snow"])}
    \cup {NewTween(ref, "currentScale", parts[ref].baseScale,
                   "power1.out", 1) : ref \in SeqRange(ls["aura"])}

animateEntrance(erupt) ==
    /\ ~entered
    /\ entered' = TRUE
    /\ particles' = EntranceParticles(particles, lists)
    /\ tweens' = tweens \cup EntranceTweens(particles, lists, erupt)
    /\ UNCHANGED <<lists, meshes, lastCall, touched>>

\* one tick of a tween that has waited out its delay: the value it writes
TweenValue(tw, current) ==
    LET from == IF tw.started THEN tw.from ELSE current
    IN IF tw.step + 1 >= TweenTicks THEN tw.to
       ELSE from + ((tw.to - from) * Eased(tw.ease, tw.step + 1)) \div 1000

\* the tween after the tick.  The start value is captured at the first tick
\* and kept for as long as a later tick reads it, that is, up to the tick
\* before the last.
TweenAfter(tw, current) ==
    IF tw.delay > 0 THEN [tw EXCEPT !.delay = @ - 1]
    ELSE [tw EXCEPT !.started = TRUE,
                    !.from = IF tw.step + 2 >= TweenTicks THEN 0
                             ELSE IF tw.started THEN tw.from ELSE current,
                    !.step = @ + 1]

Running(ref, prop) ==
    {tw \in tweens : tw.ref = ref /\ tw.prop = prop /\ tw.delay = 0}

\* the ticker: every tween advances by one tick and writes its property; a
\* tween that has made its last step is dropped
gsapTick ==
    /\ tweens # {}
    /\ particles' =
         [ref \in DOMAIN particles |->
             LET p == particles[ref]
                 pos == Running(ref, "currentPosition")
                 scl == Running(ref, "currentScale")
             IN [p EXCEPT
                   !.currentPosition =
                       IF pos = {} THEN @
                       ELSE TweenValue(CHOOSE tw \in pos : TRUE, @),
                   !.currentScale =
                       IF scl = {} THEN @
                       ELSE TweenValue(CHOOSE tw \in scl : TRUE, @)]]
    /\ tweens' =
         {TweenAfter(tw, particles[tw.ref][tw.prop]) :
             tw \in {t \in tweens : t.delay > 0 \/ t.step + 1 < TweenTicks}}
    /\ UNCHANGED <<lists, meshes, entered, lastCall, touched>>

(***************************************************************************)
(* update                                                                  *)
(***************************************************************************)
Min(a, b) == IF a < b THEN a ELSE b
Max(a, b) == IF a > b THEN a ELSE b

\* sin of q quarter turns
SinQuarter(q) == CASE q % 4 = 1 -> 1 [] q % 4 = 3 -> -1 [] OTHER -> 0

\* updateList: every list culled by treeDensity
DensityForTree(isDeco, a) == a.treeDensity

\* updateList: density = isDeco ? decorationDensity : treeDensity
DensityFor(isDeco, a) ==
    IF isDeco THEN a.decorationDensity ELSE a.treeDensity

\* updateList: the density taken as it comes
ClampDensityNone(density) == density

\* updateList: Math.min(1.0, density * densityMultiplier); no caller passes a
\* densityMultiplier, so it is 1.0
ClampDensity(density) == Min(10, density)

\* the culling counted from the far end of the density range
VisibleCountComplement(len, density) ==
    (len * (10 - ClampDensity(density))) \div 10

\* updateList: visibleCount = Math.floor(list.length * Math.min(1.0, ...))
VisibleCount(len, density) == (len * ClampDensity(density)) \div 10

\* updateList, second loop: i runs on from where the first loop left it
HiddenIndices(visibleCount, len) == {i \in 0..(len - 1) : i >= visibleCount}

\* culling done by cutting the list down to its visible part
ListCut(list, visibleCount) ==
    SubSeq(list, 1, Max(0, Min(visibleCount, Len(list))))

\* updateList: the list as the call leaves it
ListAfter(list, visibleCount) == list

\* explodeDist = dispersion * (25 + Math.random() * 15), in cells
ExplodeDist(dispersion, r) ==
    (dispersion * (25 * RandDen + 15 * r)) \div (1200 * RandDen)

\* updateList: the position is moved a tenth of the way to
\* targetPosition + explosionVelocity * explodeDist
Lerped(p, dispersion, r) ==
    [p EXCEPT !.currentPosition =
        StepToward(@, p.targetPosition + p.explosionVelocity * ExplodeDist(dispersion, r),
                   LerpDiv)]

\* the cell of a point of the hit volume
PointCell(point) == point[2] - 1

\* updateList: the scale written to the slot
ScaleOf(p, isDeco, a) ==
    LET breath ==
            IF isDeco
            THEN (p.currentScale
                    * (1000 + 400 * SinQuarter((4 * a.time * a.twinkleSpeed) \div 10)))
                 \div 1000
            ELSE (p.currentScale * (1000 + 50 * SinQuarter(a.time))) \div 1000
    IN IF /\ a.mousePos # Null
          /\ a.dispersion < 10
          /\ p.currentPosition = PointCell(a.mousePos)
       THEN 2 * breath ELSE breath

\* update: the mesh index the calls at the end of update hand over, with
\* those of gifts and candy exchanged
UpdateMeshOfSwapped(list) ==
    CASE list = "foliage" -> 0
      [] list = "decoration" -> 1
      [] list = "trunk" -> 2
      [] list = "snow" -> 3
      [] list = "aura" -> 4
      [] list = "gift" -> 6
      [] OTHER -> 5

\* update: the mesh index the calls at the end of update hand over with the
\* list; updateSnow takes meshes[3], updateAura meshes[4]
UpdateMeshOf(list) ==
    CASE list = "foliage" -> 0
      [] list = "decoration" -> 1
      [] list = "trunk" -> 2
      [] list = "snow" -> 3
      [] list = "aura" -> 4
      [] list = "gift" -> 5
      [] OTHER -> 6

\* update: the lists it hands to updateList, and the calls that pass isDeco
TreeLists == {"foliage", "decoration", "trunk", "gift", "candy"}
IsDeco(list) == list \in {"decoration", "gift", "candy"}

\* updateList: visibleCount of the call for the list
VisibleOf(list, a) == VisibleCount(Len(lists[list]), DensityFor(IsDeco(list), a))

\* updateList, first loop: the indices read from the list, and those of them
\* at which a particle is found
ReadIn(list, a) == 0..(VisibleOf(list, a) - 1)
ShownIn(list, a) == {i \in ReadIn(list, a) : i < Len(lists[list])}

\* updateSnow: visibleSnow = Math.floor(length * snowDensity)
SnowVisible(len, snowDensity) == (len * snowDensity) \div 10

\* updateSnow: the indices that pass the test i >= visibleSnow, and the rest
SnowShown(a) ==
    {i \in 0..(Len(lists["snow"]) - 1) :
        i < SnowVisible(Len(lists["snow"]), a.snowDensity)}
SnowHidden(a) ==
    {i \in 0..(Len(lists["snow"]) - 1) :
        i >= SnowVisible(Len(lists["snow"]), a.snowDensity)}

\* updateSnow: the cells a flake falls in a frame,
\* (0.05 + Math.random() * 0.05) * snowSpeed
SnowFall(snowSpeed, r) ==
    ((5 * RandDen + 5 * r) * snowSpeed) \div (5000 * RandDen)

\* updateSnow, the wrap: x = (Math.random() - 0.5) * 80
SnowRedraw(r) == ((2 * r - RandDen) * 40) \div RandDen

\* the fall without the wrap
FallenThrough(p, snowSpeed, r) ==
    [p EXCEPT !.currentPosition = @ - SnowFall(snowSpeed, r)]

\* updateSnow: fall and wrap around
Fallen(p, snowSpeed, r) ==
    LET y == p.currentPosition - SnowFall(snowSpeed, r)
    IN IF y < SnowFloor
       THEN [p EXCEPT !.currentPosition = SnowTop, !.currentX = SnowRedraw(r)]
       ELSE [p EXCEPT !.currentPosition = y]

\* updateSnow: s = baseScale * (0.8 + Math.random() * 0.4)
SnowScale(p, r) == (p.baseScale * (8 * RandDen + 4 * r)) \div (10 * RandDen)

\* updateAura: s = currentScale * (0.8 + 0.4 * Math.sin(time * 2 + id)); the
\* orbit turns by 0.002 rad a frame, which leaves the particle in its cell
AuraScale(p, a) ==
    (p.currentScale * (8 + 4 * SinQuarter(((2 * a.time + p.id) * 2) \div 3))) \div 10

\* update: the record the call leaves for the particle ref.  The lists share
\* no particle, so the calls of updateList and updateSnow change disjoint
\* records; rnd is the random draw of the frame for each particle.
UpdatedParticle(ref, a, rnd) ==
    IF \E n \in TreeLists : \E i \in ShownIn(n, a) : lists[n][i + 1] = ref
    THEN Lerped(particles[ref], a.dispersion, rnd[ref])
    ELSE IF \E i \in SnowShown(a) : lists["snow"][i + 1] = ref
    THEN Fallen(particles[ref], a.snowSpeed, rnd[ref])
    ELSE particles[ref]

\* updateList(list, mesh, isDeco): the slots it leaves in the mesh; parts are
\* the records after the first loop
updateListMesh(list, mesh, parts, a) ==
    LET l == lists[list]
        shown == ShownIn(list, a)
        hidden == HiddenIndices(VisibleOf(list, a), Len(l))
    IN [j \in DOMAIN mesh |->
          IF j - 1 \in shown
          THEN MatrixOf(parts[l[j]].currentPosition,
                        ScaleOf(parts[l[j]], IsDeco(list), a), l[j])
          ELSE IF j - 1 \in hidden THEN ZeroMatrix
          ELSE mesh[j]]

updateSnowMesh(mesh, parts, a, rnd) ==
    LET l == lists["snow"]
    IN [j \in DOMAIN mesh |->
          IF j - 1 \in SnowShown(a)
          THEN MatrixOf(parts[l[j]].currentPosition,
                        SnowScale(parts[l[j]], rnd[l[j]]), l[j])
          ELSE IF j - 1 \in SnowHidden(a) THEN ZeroMatrix
          ELSE mesh[j]]

updateAuraMesh(mesh, parts, a) ==
    LET l == lists["aura"]
    IN [j \in DOMAIN mesh |->
          IF j <= Len(l)
          THEN MatrixOf(parts[l[j]].currentPosition, AuraScale(parts[l[j]], a), l[j])
          ELSE mesh[j]]

\* update: the slots of meshes[k] after the call that is handed meshes[k]
UpdatedMesh(k, parts, a, rnd) ==
    LET bound == {n \in PopulationNames : UpdateMeshOf(n) = k}
        n == CHOOSE n \in bound : TRUE
    IN IF bound = {} THEN meshes[k]
       ELSE IF n = "snow" THEN updateSnowMesh(meshes[k], parts, a, rnd)
       ELSE IF n = "aura" THEN updateAuraMesh(meshes[k], parts, a)
       ELSE updateListMesh(n, meshes[k], parts, a)

\* update: what the call reads from the list and writes to its mesh
TouchedBy(n, a) ==
    IF n \in TreeLists
    THEN [reads |-> ReadIn(n, a),
          writes |-> ShownIn(n, a) \cup HiddenIndices(VisibleOf(n, a), Len(lists[n]))]
    ELSE IF n = "snow"
    THEN [reads |-> SnowShown(a), writes |-> SnowShown(a) \cup SnowHidden(a)]
    ELSE [reads |-> 0..(Len(lists[n]) - 1), writes |-> 0..(Len(lists[n]) - 1)]

\* the arguments of a call of update
UpdateArgs(time, mousePos, dispersion, twinkleSpeed, snowDensity, snowSpeed, treeDensity, decorationDensity) ==
    [op |-> "update", time |-> time, mousePos |-> mousePos,
     dispersion |-> dispersion, twinkleSpeed |-> twinkleSpeed,
     snowDensity |-> snowDensity, snowSpeed |-> snowSpeed,
     treeDensity |-> treeDensity, decorationDensity |-> decorationDensity]

update(a, rnd) ==
    LET parts == [ref \in DOMAIN particles |-> UpdatedParticle(ref, a, rnd)]
    IN /\ particles' = parts
       /\ lists' = [n \in PopulationNames |->
                      IF n \in TreeLists
                      THEN ListAfter(lists[n], VisibleOf(n, a))
                      ELSE lists[n]]
       /\ meshes' = [k \in 0..6 |-> UpdatedMesh(k, parts, a, rnd)]
       /\ touched' = [n \in PopulationNames |-> TouchedBy(n, a)]
       /\ lastCall' = a
       /\ UNCHANGED <<tweens, entered>>

(***************************************************************************)
(* updateColors                                                            *)
(***************************************************************************)
Themes == {"classic", "icy", "golden"}

\* foliageBase .. foliageTip of the theme
FoliageColors(theme) ==
    CASE theme = "icy" -> "#001a33..#80d4ff"
      [] theme = "golden" -> "#221100..#ffaa00"
      [] OTHER -> "#0f3b0f..#2ecc71"

\* the palettes with golden in the place of the default
DecoColorsGoldenDefault(theme) ==
    CASE theme = "icy" -> <<"#ffffff", "#00ffff", "#0044cc">>
      [] OTHER -> <<"#ffd700", "#ffec8b", "#b8860b">>

\* decoColors of the theme
DecoColors(theme) ==
    CASE theme = "icy" -> <<"#ffffff", "#00ffff", "#0044cc">>
      [] theme = "golden" -> <<"#ffd700", "#ffec8b", "#b8860b">>
      [] OTHER -> <<"#FFD700", "#FF0000", "#C0C0C0", "#00BFFF">>

\* decoColors[Math.floor(Math.random() * decoColors.length)]
PickColor(theme, r) ==
    DecoColors(theme)[(r * Len(DecoColors(theme))) \div RandDen + 1]

updateColors(theme, rnd) ==
    /\ particles' =
         [ref \in DOMAIN particles |->
             IF ref \in SeqRange(lists["foliage"])
             THEN [particles[ref] EXCEPT !.color = FoliageColors(theme)]
             ELSE IF ref \in SeqRange(lists["decoration"])
             THEN [particles[ref] EXCEPT !.color = PickColor(theme, rnd[ref])]
             ELSE particles[ref]]
    /\ UNCHANGED <<lists, meshes, tweens, entered, lastCall, touched>>

(***************************************************************************)
(* OrnamentSystem and the card interaction of ChristmasTree.vue.  A card's *)
(* position and scale are vectors <<x, y, z>>: positions in cells of half  *)
(* a world unit, scales in thousandths.                                    *)
(***************************************************************************)
\* handleOrnamentClick: multiplyScalar(2.0), the pull-out distance: 4 cells
PullOutCells == 4
\* handleOrnamentClick: originalScale * 1.5, in tenths
PullOutScale == 15
\* OrnamentSystem.update: mesh.position.lerp(targetPos, 0.1)
CardLerpDiv == 10
\* OrnamentSystem.update: explodeDist = dispersion * 20.0
CardExplode == 20
\* OrnamentSystem.update: the dispersion above which a card is pushed out, 0.01
CardExplodeAbove == 1
\* createOrnaments: mesh.scale.set(0.8, 0.8, 0.8)
CardScale == 800

\* floor(sqrt(n))
RECURSIVE IsqrtFrom(_, _)
IsqrtFrom(n, r) == IF (r + 1) * (r + 1) > n THEN r ELSE IsqrtFrom(n, r + 1)
Isqrt(n) == IsqrtFrom(n, 0)

\* n / d rounded to the nearest integer, d > 0
RoundDiv(n, d) ==
    IF n >= 0 THEN (2 * n + d) \div (2 * d) ELSE -((2 * (-n) + d) \div (2 * d))

VecAdd(a, b) == <<a[1] + b[1], a[2] + b[2], a[3] + b[3]>>

\* Vector3.length(), in thousandths
VecLength(v) ==
    LET squares == v[1] * v[1] + v[2] * v[2] + v[3] * v[3]
        \* the root is taken of a number below 10^8
        len == Isqrt(100 * squares)
    IN len * 100

\* v.normalize().multiplyScalar(k): the vector of length k (k in the units
\* of the result) along v; the zero vector stays zero
ScaledDirection(v, k) ==
    IF VecLength(v) = 0 THEN <<0, 0, 0>>
    ELSE <<RoundDiv(k * v[1] * 1000, VecLength(v)),
           RoundDiv(k * v[2] * 1000, VecLength(v)),
           RoundDiv(k * v[3] * 1000, VecLength(v))>>

\* ornamentData.ts, generatePosition followed by the recalculation of
\* createOrnaments: the positions the first cards are put at, in cells
OriginalPositions ==
    <<  <<11, 3, 0>>, <<-8, 4, 7>>, <<1, 5, -10>>, <<6, 7, 7>>, <<-9, 8, -2>>  >>

OriginalPosition(c) == OriginalPositions[c]

\* createOrnaments: originalScale, the clone of mesh.scale
OriginalScale(c) == <<CardScale, CardScale, CardScale>>

\* the id of a card, `ornament_${i + 1}`, and an id no card has
CardId(c) == <<"ornament", c>>
UnknownId == <<"ornament", 0>>

\* createOrnaments: explosionVelocity, in thousandths: the horizontal
\* direction of the card with y set to 0.2, normalized again
ExplosionVelocity(c) ==
    LET p == OriginalPosition(c)
        flat == ScaledDirection(<<p[1], 0, p[3]>>, 10)
    IN ScaledDirection(<<flat[1], 2, flat[3]>>, 1000)

\* the pull-out direction the card flow is described with: 2 units along the
\* normalized (x, 0, z) of the position
HorizontalPullOut(originalPos) ==
    ScaledDirection(<<originalPos[1], 0, originalPos[3]>>, PullOutCells)

\* handleOrnamentClick: outDir = originalPos.clone().normalize()
\*                               .multiplyScalar(2.0)
OutDir(originalPos) == ScaledDirection(originalPos, PullOutCells)

\* handleOrnamentClick: targetPos = originalPos.clone().add(outDir)
PullOutPosition(originalPos) == VecAdd(originalPos, OutDir(originalPos))

\* handleOrnamentClick: originalScale * 1.5, per component
PullOutScaleOf(originalScale) ==
    <<(originalScale[1] * PullOutScale) \div 10,
      (originalScale[2] * PullOutScale) \div 10,
      (originalScale[3] * PullOutScale) \div 10>>

\* the image references of the model: the default of ornamentData.ts, and
\* what is stored as an override: two uploads and the empty string
DefaultSrc == "default-product.jpg"
Srcs == {"data:a", "data:b", ""}
\* what Map.get gives for a key the map does not hold
Undefined == "undefined"
\* material.map before a texture has been loaded
NoTexture == "null"
\* the ids the store and updateTexture are asked about: the first card's
\* and one no card has
StoreIds == {CardId(1), UnknownId}

VARIABLES
    orn,            \* this.ornaments: card -> [position, scale, isExpanded,
                    \* map], map the image the material shows
    cardTweens,     \* the tweens gsap holds on card transforms, oldest first
    loads,          \* the texture loads under way: [card, src]
    customImages,   \* the store's overrides: id -> image, or Undefined
    selectedSince,  \* the cards clicked since the last close signal
    requested,      \* card -> the image of the last load started for it
    lastStore       \* the last call of the store or of updateTexture:
                    \* [op, id, src, result]

cardVars == <<orn, cardTweens, loads, customImages, selectedSince, requested,
              lastStore>>

\* new OrnamentSystem(scene) and the store as created
CardInit ==
    /\ orn = [c \in Cards |->
                [position |-> OriginalPosition(c), scale |-> OriginalScale(c),
                 isExpanded |-> FALSE, map |-> NoTexture]]
    /\ cardTweens = <<>>
    /\ loads = {[card |-> c, src |-> DefaultSrc] : c \in Cards}
    /\ customImages = [id \in StoreIds |-> Undefined]
    /\ selectedSince = {}
    /\ requested = [c \in Cards |-> DefaultSrc]
    /\ lastStore = [op |-> "none", id |-> Null, src |-> "", result |-> ""]

(***************************************************************************)
(* gsap on the cards                                                       *)
(***************************************************************************)
\* the eased progress, in thousandths, after step of ticks ticks
CardEased(ease, step, ticks) ==
    LET rest == ticks - step
        cube(n) == (n * n * n * 1000) \div (ticks * ticks * ticks)
        square(n) == (n * n * 1000) \div (ticks * ticks)
    IN CASE ease = "power2.out" -> 1000 - cube(rest)
         [] ease = "power2.inOut" ->
               IF 2 * step < ticks THEN 4 * cube(step) ELSE 1000 - 4 * cube(rest)
         [] OTHER -> 1000 - (22 * cube(rest)) \div 10 + (12 * square(rest)) \div 10

\* the ticks of the pull-out (0.5 s) and of the return (0.6 s)
PullOutTicks == TweenTicks
ReturnTicks == TweenTicks + 1

\* gsap.to(target[prop], {x, y, z, duration, ease, onComplete})
NewCardTween(card, prop, to, ease, ticks, onComplete) ==
    [card |-> card, prop |-> prop, to |-> to, ease |-> ease, ticks |-> ticks,
     onComplete |-> onComplete, started |-> FALSE, from |-> <<0, 0, 0>>,
     step |-> 0]

\* killTweensOf left out
KillNothing(tws, card) == tws

\* gsap.killTweensOf(target.position / rotation / scale)
KillTweensOf(tws, card) == SelectSeq(tws, LAMBDA tw : tw.card # card)

\* one tick of a card tween: the vector it writes
CardTweenValue(tw, current) ==
    LET from == IF tw.started THEN tw.from ELSE current
        e == CardEased(tw.ease, tw.step + 1, tw.ticks)
        at(i) == from[i] + RoundDiv((tw.to[i] - from[i]) * e, 1000)
    IN IF tw.step + 1 >= tw.ticks THEN tw.to ELSE <<at(1), at(2), at(3)>>

\* the tween after the tick; the start vector is captured at the first tick
\* and kept for as long as a later tick reads it
CardTweenAfter(tw, current) ==
    [tw EXCEPT !.started = TRUE,
               !.from = IF tw.step + 2 >= tw.ticks THEN <<0, 0, 0>>
                        ELSE IF tw.started THEN tw.from ELSE current,
               !.step = @ + 1]

CardTweenDone(tw) == tw.step + 1 >= tw.ticks

\* the ticker renders the tweens in the order they were created: each
\* writes its property of its card
RECURSIVE RenderCardTweens(_, _, _)
RenderCardTweens(o, tws, i) ==
    IF i > Len(tws) THEN o
    ELSE LET tw == tws[i]
             written == [o EXCEPT ![tw.card][tw.prop] = CardTweenValue(tw, @)]
             \* onComplete of the pull-out: target.userData.isExpanded = true
             completed == IF CardTweenDone(tw) /\ tw.onComplete
                          THEN [written EXCEPT ![tw.card].isExpanded = TRUE]
                          ELSE written
         IN RenderCardTweens(completed, tws, i + 1)

\* the tweens after the tick, the completed ones dropped
RECURSIVE AdvanceCardTweens(_, _, _)
AdvanceCardTweens(o, tws, i) ==
    IF i > Len(tws) THEN <<>>
    ELSE LET tw == tws[i]
             rest == AdvanceCardTweens(
                         [o EXCEPT ![tw.card][tw.prop] = CardTweenValue(tw, @)],
                         tws, i + 1)
         IN IF CardTweenDone(tw) THEN rest
            ELSE <<CardTweenAfter(tw, o[tw.card][tw.prop])>> \o rest

\* no onComplete run by the tick
CompletingNone(tws) == <<>>

\* the pull-outs whose onComplete runs in this tick, in order
Completing(tws) == SelectSeq(tws, LAMBDA tw : CardTweenDone(tw) /\ tw.onComplete)

cardTick ==
    /\ cardTweens # <<>>
    /\ orn' = RenderCardTweens(orn, cardTweens, 1)
    /\ cardTweens' = AdvanceCardTweens(orn, cardTweens, 1)
    /\ LET done == Completing(cardTweens)
       IN IF done = <<>>
          THEN UNCHANGED <<selectedOrnament, viewerVisible>>
          ELSE \* selectedOrnament.value = target.userData; viewerVisible = true
               /\ selectedOrnament' = CardId(done[Len(done)].card)
               /\ viewerVisible' = TRUE
    /\ lastEvent' = [op |-> "tick", arg |-> Null]
    /\ UNCHANGED <<dispersionState, autoRotate, controls, hoveredObject,
                   mouse3D, cursor, walkEnded, loads, customImages,
                   selectedSince, requested, lastStore>>

(***************************************************************************)
(* onClick, handleOrnamentClick, closeViewer                               *)
(***************************************************************************)
\* handleOrnamentClick: the two tweens of the pull-out of the card
PullOutTweens(c) ==
    << NewCardTween(c, "position", PullOutPosition(OriginalPosition(c)),
                    "back.out(1.2)", PullOutTicks, FALSE),
       NewCardTween(c, "scale", PullOutScaleOf(OriginalScale(c)),
                    "power2.out", PullOutTicks, TRUE) >>

\* handleOrnamentClick(mesh): target = mesh.userData.parent || mesh
handleOrnamentClick(mesh) ==
    LET target == ResolveRoot(mesh)
        c == target[2]
    IN /\ cardTweens' = KillTweensOf(cardTweens, c) \o PullOutTweens(c)
       /\ selectedSince' = selectedSince \cup {c}
       /\ UNCHANGED <<orn, viewerVisible, selectedOrnament>>

onClick ==
    /\ IF viewerVisible
       THEN UNCHANGED <<orn, cardTweens, selectedSince, viewerVisible,
                        selectedOrnament>>
       ELSE IF hoveredObject # Null /\ IsOrnament(hoveredObject)
       THEN handleOrnamentClick(hoveredObject)
       ELSE \* the hit volume or nothing: at most a stardust burst
            UNCHANGED <<orn, cardTweens, selectedSince, viewerVisible,
                        selectedOrnament>>
    /\ lastEvent' = [op |-> "click", arg |-> hoveredObject]
    /\ UNCHANGED <<dispersionState, autoRotate, controls, hoveredObject,
                   mouse3D, cursor, walkEnded, loads, customImages, requested,
                   lastStore>>

\* return tweens that aim at the pulled-out transform
ReturnTweensPulled(c) ==
    << NewCardTween(c, "position", PullOutPosition(OriginalPosition(c)),
                    "power2.inOut", ReturnTicks, FALSE),
       NewCardTween(c, "scale", PullOutScaleOf(OriginalScale(c)),
                    "power2.inOut", ReturnTicks, FALSE) >>

\* closeViewer: the two tweens that take the card back
ReturnTweens(c) ==
    << NewCardTween(c, "position", OriginalPosition(c), "power2.inOut",
                    ReturnTicks, FALSE),
       NewCardTween(c, "scale", OriginalScale(c), "power2.inOut",
                    ReturnTicks, FALSE) >>

\* closeViewer: the tweens started for the cards flagged isExpanded, in the
\* order of this.ornaments
RECURSIVE CloseTweens(_, _)
CloseTweens(o, c) ==
    IF c > NumCards THEN <<>>
    ELSE (IF o[c].isExpanded THEN ReturnTweens(c) ELSE <<>>)
         \o CloseTweens(o, c + 1)

closeViewer ==
    /\ viewerVisible' = FALSE
    /\ selectedOrnament' = Null
    /\ cardTweens' = cardTweens \o CloseTweens(orn, 1)
    /\ orn' = [c \in Cards |-> [orn[c] EXCEPT !.isExpanded = FALSE]]
    /\ selectedSince' = {}
    /\ lastEvent' = [op |-> "close", arg |-> Null]
    /\ UNCHANGED <<dispersionState, autoRotate, controls, hoveredObject,
                   mouse3D, cursor, walkEnded, loads, customImages, requested,
                   lastStore>>

(***************************************************************************)
(* OrnamentSystem.update and updateTexture                                 *)
(***************************************************************************)
\* the position a card is drawn to at the dispersion (in hundredths)
CardTarget(c, dispersion) ==
    IF dispersion > CardExplodeAbove
    THEN LET v == ExplosionVelocity(c)
             \* v (thousandths) * dispersion (hundredths) * 20 units, in cells
             push(i) == RoundDiv(v[i] * dispersion * CardExplode * 2, 100000)
         IN VecAdd(OriginalPosition(c), <<push(1), push(2), push(3)>>)
    ELSE OriginalPosition(c)

\* mesh.position.lerp(targetPos, 0.1)
CardLerp(position, targetPos) ==
    <<StepToward(position[1], targetPos[1], CardLerpDiv),
      StepToward(position[2], targetPos[2], CardLerpDiv),
      StepToward(position[3], targetPos[3], CardLerpDiv)>>

\* update: "if (mesh.userData.isExpanded) return"
SkipsCard(o, c) == o[c].isExpanded

\* OrnamentSystem.update(time, dispersion); the bob of 0.002 units is far
\* below a cell
ornamentUpdate(dispersion) ==
    orn' = [c \in Cards |->
              IF SkipsCard(orn, c) THEN orn[c]
              ELSE [orn[c] EXCEPT
                      !.position = CardLerp(@, CardTarget(c, dispersion))]]

\* find that falls back to the first card
FindCardOrFirst(id) == IF \E c \in Cards : CardId(c) = id
                       THEN {c \in Cards : CardId(c) = id} ELSE {1}

\* updateTexture: this.ornaments.find(o => o.userData.id === id)
FindCard(id) == {c \in Cards : CardId(c) = id}

\* updateTexture(id, src): starts a load for the card found, if any
TextureLoads(id, src) == {[card |-> c, src |-> src] : c \in FindCard(id)}

updateTexture(id, src) ==
    /\ loads' = loads \cup TextureLoads(id, src)
    /\ requested' = [c \in Cards |-> IF c \in FindCard(id) THEN src ELSE requested[c]]

\* the callback of textureLoader.load: mat.map = texture
textureLoaded(l) ==
    /\ l \in loads
    /\ loads' = loads \ {l}
    /\ orn' = [orn EXCEPT ![l.card].map = l.src]
    /\ lastStore' = [op |-> "loaded", id |-> CardId(l.card), src |-> l.src,
                     result |-> ""]
    /\ UNCHANGED <<treeVars, cardTweens, customImages, selectedSince, requested>>

(***************************************************************************)
(* ornamentStore.ts and handleUploadTrigger                                *)
(***************************************************************************)
\* customImages.value.set(id, base64)
SetImage(images, id, base64) == [images EXCEPT ![id] = base64]

updateOrnamentImage(id, base64) ==
    /\ customImages' = SetImage(customImages, id, base64)
    /\ lastStore' = [op |-> "updateOrnamentImage", id |-> id, src |-> base64,
                     result |-> ""]
    /\ UNCHANGED <<treeVars, orn, cardTweens, loads, selectedSince, requested>>

\* a || b on strings: undefined and the empty string are falsy
OrElse(a, b) == IF a = Undefined \/ a = "" THEN b ELSE a

\* the lookup that returns the default whatever is stored
GetDefaultSrc(images, id, defaultSrc) == defaultSrc

\* getOrnamentSrc: customImages.value.get(id) || defaultSrc
getOrnamentSrc(images, id, defaultSrc) == OrElse(images[id], defaultSrc)

\* handleUploadTrigger(ornamentId)
handleUploadTrigger(ornamentId) ==
    LET src == getOrnamentSrc(customImages, ornamentId, "")
    IN /\ IF src # "" THEN updateTexture(ornamentId, src)
          ELSE UNCHANGED <<loads, requested>>
       /\ lastStore' = [op |-> "uploadTrigger", id |-> ornamentId, src |-> src,
                        result |-> ""]
       /\ UNCHANGED <<treeVars, orn, cardTweens, customImages, selectedSince>>

(***************************************************************************)
(* StardustSystem: a pool of count slots.  A slot keeps y, the coordinate  *)
(* gravity acts on: its position is the point it was spawned at and the    *)
(* offset travelled since, in thousandths of a world unit; its velocity is *)
(* in thousandths a frame.  Life is counted in frames left: the code       *)
(* starts it at 1.0 and takes 0.02 off in every update.                    *)
(***************************************************************************)
\* count, the size of the pool
PoolSize == 3
\* the number of update calls that take a life of 1.0 to 0
LifeFrames == 3
\* positions[i] = 9999: a hidden slot
HiddenAt == 9999
\* velocity.y -= 0.002
Gravity == 2
\* spawn's default amount, and the amount of spawnTrail
BurstAmount == 30
TrailAmount == 2

Hidden == [at |-> <<"hidden", HiddenAt>>, offset |-> 0]
SpawnedAt(position) == [at |-> position, offset |-> 0]

\* the y velocities spawn can draw: sin(phi) * sin(theta) * speed, speed in
\* 0.05 .. 0.15
DustVelocities == {-100, 100}

\* the slots as the constructor leaves them
NoDust ==
    [i \in 1..PoolSize |-> [life |-> 0, position |-> Hidden, velocity |-> 0]]

VARIABLES
    dust,         \* the pool: slot -> [life, position, velocity]
    pointer,      \* the pointer in screen coordinates
    listeners,    \* the window events init() has a listener registered for
    frameArmed,   \* requestAnimationFrame(animate) is pending
    lastOrnCall,  \* the arguments of the last call of ornamentSystem.update
    drawn         \* what the last composer.render was issued with

sysVars == <<dust, pointer, listeners, frameArmed, lastOrnCall, drawn>>

\* every slot taken to be free
SlotFreeAlways(slot) == TRUE

\* spawn: (this.life[i] ?? 0) <= 0
SlotFree(slot) == slot.life <= 0

\* spawn: the loop "for (i = 0; i < this.count && spawned < amount; i++)";
\* draws[i] is the velocity drawn for slot i
RECURSIVE SpawnLoop(_, _, _, _, _, _)
SpawnLoop(pool, position, amount, draws, i, spawned) ==
    IF ~(i < Len(pool) /\ spawned < amount) THEN pool
    ELSE IF SlotFree(pool[i + 1])
    THEN SpawnLoop([pool EXCEPT ![i + 1] =
                       [life |-> LifeFrames, position |-> SpawnedAt(position),
                        velocity |-> draws[i + 1]]],
                   position, amount, draws, i + 1, spawned + 1)
    ELSE SpawnLoop(pool, position, amount, draws, i + 1, spawned)

\* spawn(position, amount)
spawn(position, amount, draws) ==
    dust' = SpawnLoop(dust, position, amount, draws, 0, 0)

\* spawnTrail(position)
spawnTrail(position, draws) == spawn(position, TrailAmount, draws)

\* update, one slot: decay; a slot that dies is hidden, a live one moves and
\* gravity pulls on its velocity
SlotAfter(slot) ==
    IF slot.life > 0
    THEN LET life == slot.life - 1
         IN IF life <= 0
            THEN [slot EXCEPT !.life = life, !.position = Hidden]
            ELSE [life |-> life,
                  position |-> [slot.position EXCEPT !.offset = @ + slot.velocity],
                  velocity |-> slot.velocity - Gravity]
    ELSE slot

\* StardustSystem.update()
dustUpdate == dust' = [i \in DOMAIN dust |-> SlotAfter(dust[i])]

\* the number of slots with life > 0
LiveCount(pool) == Cardinality({i \in DOMAIN pool : pool[i].life > 0})

(***************************************************************************)
(* ChristmasTree.vue: init's listeners, onPointerMove, the whole frame and *)
(* onUnmounted                                                             *)
(***************************************************************************)
\* init: window.addEventListener for each of these
InitListeners == {"resize", "pointermove", "click", "wheel"}
\* onUnmounted: window.removeEventListener for each of these
RemovedListeners == {"resize", "pointermove", "click"}

\* the pointer as init() leaves it, (99, 99), and where events put it
OffScreen == <<"screen", 99>>
ScreenPositions == {<<"screen", 1>>, <<"screen", 2>>}

\* onPointerMove: the point 20 units along the ray from the camera
Unprojected(pos) == <<"unprojected", pos[2]>>

NoOrnCall == [op |-> "none", dispersion |-> 0]
NotDrawn == [op |-> "none", meshes |-> meshes, cards |-> orn, dust |-> dust]

\* the listeners, the frame loop and the stardust pool after onMounted
SysInit ==
    /\ dust = NoDust
    /\ pointer = OffScreen
    /\ listeners = InitListeners
    /\ frameArmed = TRUE
    /\ lastOrnCall = NoOrnCall
    /\ drawn = NotDrawn

\* onPointerMove(event)
onPointerMove(pos, draws) ==
    /\ pointer' = pos
    /\ spawnTrail(IF mouse3D # Null THEN mouse3D ELSE Unprojected(pos), draws)
    /\ lastEvent' = [op |-> "pointermove", arg |-> pos]
    /\ UNCHANGED <<dispersionState, autoRotate, controls, hoveredObject,
                   mouse3D, cursor, viewerVisible, selectedOrnament, walkEnded>>
    /\ UNCHANGED <<listeners, frameArmed, lastOrnCall, drawn>>

\* the updates handed the dispersion as it was before the frame's easing
FrameDispersionBefore(before, after) == before

\* animate: the dispersionState.current the two updates are handed, read
\* after the easing of line 382
FrameDispersion(before, after) == after

\* animate, the whole frame: the easing and the hover resolution, then
\* particleSystem.update, ornamentSystem.update and stardustSystem.update,
\* then composer.render; rnd are the frame's random draws
animateFrame(time, hit, point, rnd) ==
    LET dispersion ==
            FrameDispersion(dispersionState.current, dispersionState'.current)
    IN /\ frameArmed
       /\ frameArmed' = TRUE
       /\ animate(hit, point)
       /\ update(UpdateArgs(time, mouse3D', dispersion, config.twinkleSpeed,
                            config.snowDensity, config.snowSpeed,
                            config.treeDensity, config.decorationDensity), rnd)
       /\ ornamentUpdate(dispersion)
       /\ lastOrnCall' = [op |-> "update", dispersion |-> dispersion]
       /\ dustUpdate
       /\ drawn' = [op |-> "render", meshes |-> meshes', cards |-> orn',
                    dust |-> dust']
       /\ UNCHANGED <<pointer, listeners>>

\* onUnmounted: the listeners it removes and cancelAnimationFrame.  Vue runs
\* the hook once, for a mounted component.
onUnmounted ==
    /\ listeners = InitListeners
    /\ listeners' = listeners \ RemovedListeners
    /\ frameArmed' = FALSE
    /\ lastEvent' = [op |-> "unmount", arg |-> Null]
    /\ UNCHANGED <<dispersionState, autoRotate, controls, hoveredObject,
                   mouse3D, cursor, viewerVisible, selectedOrnament, walkEnded>>
    /\ UNCHANGED <<dust, pointer, lastOrnCall, drawn>>

(***************************************************************************)
(* The component's density handlers                                        *)
(***************************************************************************)
handleTreeDensityUpdate(val) ==
    /\ config' = [config EXCEPT !.treeDensity = val]
    /\ UNCHANGED <<treeVars, psVars, cardVars, sysVars>>

handleDecorationDensityUpdate(val) ==
    /\ config' = [config EXCEPT !.decorationDensity = val]
    /\ UNCHANGED <<treeVars, psVars, cardVars, sysVars>>

\* handleThemeUpdate: "if (particleSystem) particleSystem.updateColors(val)"
handleThemeUpdate(val, rnd) ==
    /\ updateColors(val, rnd)
    /\ lastEvent' = [op |-> "theme", arg |-> <<val, 0>>]
    /\ UNCHANGED <<dispersionState, autoRotate, controls, hoveredObject,
                   mouse3D, cursor, viewerVisible, selectedOrnament, walkEnded,
                   config, cardVars, sysVars>>

(***************************************************************************)
(* Specifications                                                          *)
(***************************************************************************)
vars == <<dispersionState, autoRotate, controls, hoveredObject, mouse3D,
          cursor, viewerVisible, selectedOrnament, walkEnded, lastEvent,
          config, particles, lists, meshes, tweens, entered, lastCall, touched,
          orn, cardTweens, loads, customImages, selectedSince, requested,
          lastStore, dust, pointer, listeners, frameArmed, lastOrnCall, drawn>>

\* the state init() leaves behind, the particle engine constructed with all
\* its type draws at the given value
SceneInit(draw) ==
    /\ TreeInit
    /\ config = DefaultConfig
    /\ Constructed([i \in 1..TreeCount |-> draw])
    /\ CardInit
    /\ SysInit

\* The scene component: the dispersion pair, the auto-rotation and the hover
\* resolution.  The particle engine is a separate object, reached from
\* animate through particleSystem.update only; its state is left as
\* constructed here and is the subject of SpecPS.
Wheel == (\E deltaY \in WheelDeltas : onWheel(deltaY)) /\ UNCHANGED <<config, psVars, cardVars, sysVars>>
ControlUpdate ==
    (\E v \in ControlValues : handleControlUpdate(v)) /\ UNCHANGED <<config, psVars, cardVars, sysVars>>
AutoRotateUpdate ==
    (\E val \in BOOLEAN : handleAutoRotateUpdate(val)) /\ UNCHANGED <<config, psVars, cardVars, sysVars>>
Frame ==
    /\ \E hit \in RayTargets \cup {Null}, point \in HitPoints : animate(hit, point)
    /\ UNCHANGED <<config, psVars, cardVars, sysVars>>

Init == SceneInit(50)
Next == Wheel \/ ControlUpdate \/ AutoRotateUpdate \/ Frame
Spec == Init /\ [][Next]_vars

\* The runs in which the pointer is never moved: it stays where init() put
\* it, off screen at (99, 99), and every frame's ray hits nothing.
\* requestAnimationFrame(animate) is re-armed by every frame, so frames keep
\* coming.
IdleFrame == animate(Null, Null) /\ UNCHANGED <<config, psVars, cardVars, sysVars>>
EaseNext == Wheel \/ ControlUpdate \/ IdleFrame
EaseSpec == Init /\ [][EaseNext]_vars /\ WF_vars(IdleFrame)

\* The particle engine by itself: its public methods called with arguments
\* from small sets, and the gsap ticker.
PSDispersions == {0, 50}
\* <<treeDensity, decorationDensity, snowDensity, snowSpeed>>
PSInputs ==
    {<<10, 10, 5, 10>>, <<5, 10, 10, 30>>, <<10, 5, 0, 10>>,
     <<25, 0, 15, 10>>, <<0, -5, 25, 0>>, <<-5, 25, -5, 10>>}
PSThemes == {"icy", "classic"}
\* the time of the frame, in seconds
PSTime == 1
\* the draws of a frame, the same for every particle
PSDraws == {[ref \in DOMAIN particles |-> r] : r \in RandSet}

InitPS == TreeInit /\ config = DefaultConfig /\ PSInit /\ CardInit /\ SysInit

Entrance ==
    /\ \E erupt \in [DOMAIN particles -> EruptTargets] : animateEntrance(erupt)
    /\ UNCHANGED <<treeVars, config, cardVars, sysVars>>

Tick == gsapTick /\ UNCHANGED <<treeVars, config, cardVars, sysVars>>

Update ==
    /\ \E dispersion \in PSDispersions, in \in PSInputs, rnd \in PSDraws :
          update(UpdateArgs(PSTime, Null, dispersion, 10, in[3], in[4],
                            in[1], in[2]), rnd)
    /\ UNCHANGED <<treeVars, config, cardVars, sysVars>>

Colors ==
    /\ \E theme \in PSThemes, rnd \in PSDraws : updateColors(theme, rnd)
    /\ UNCHANGED <<treeVars, config, cardVars, sysVars>>

NextPS == Entrance \/ Tick \/ Update \/ Colors
SpecPS == InitPS /\ [][NextPS]_vars

\* The dispersion round trip through the whole frame.  The run starts where
\* the entrance that init() started has run to its end: every tween has
\* written its end value and is gone.  The user takes the dispersion slider
\* to 1.5 from rest and back to 0 once 1.5 is reached, and moves the density
\* sliders at any time; every frame eases the dispersion and hands it to
\* particleSystem.update with the densities in force.  The frame re-arms
\* itself.
ReturnDensities == {5, 10}
\* the draws of a frame
ReturnDraws == {[ref \in DOMAIN particles |-> 0]}
ReturnTypeDraws == {5, 50}

\* the records once every entrance tween has made its last step
Formed(parts, tws) ==
    [ref \in DOMAIN parts |->
        LET pos == {tw \in tws : tw.ref = ref /\ tw.prop = "currentPosition"}
            scl == {tw \in tws : tw.ref = ref /\ tw.prop = "currentScale"}
        IN [parts[ref] EXCEPT
              !.currentPosition =
                  IF pos = {} THEN @ ELSE (CHOOSE tw \in pos : TRUE).to,
              !.currentScale =
                  IF scl = {} THEN @ ELSE (CHOOSE tw \in scl : TRUE).to]]

ReturnInit ==
    /\ TreeInit
    /\ config = DefaultConfig
    /\ CardInit
    /\ \E draws \in [1..TreeCount -> ReturnTypeDraws] :
         LET st == Generated(draws)
             erupt == [ref \in DOMAIN st.particles |-> CHOOSE y \in EruptTargets : TRUE]
         IN /\ particles = Formed(EntranceParticles(st.particles, st.lists),
                                  EntranceTweens(st.particles, st.lists, erupt))
            /\ lists = st.lists
            /\ meshes = initInstances(st, createMeshes(st))
            /\ tweens = {}
            /\ entered = TRUE
            /\ lastCall = NoCall
            /\ touched = NoTouch
    /\ SysInit

Explode ==
    /\ dispersionState = [current |-> 0, target |-> 0]
    /\ handleControlUpdate(DispMax)
    /\ UNCHANGED <<config, psVars, cardVars, sysVars>>

Return ==
    /\ dispersionState = [current |-> DispMax, target |-> DispMax]
    /\ handleControlUpdate(0)
    /\ UNCHANGED <<config, psVars, cardVars, sysVars>>

TreeDensityUpdate == \E val \in ReturnDensities : handleTreeDensityUpdate(val)

DecorationDensityUpdate ==
    \E val \in ReturnDensities : handleDecorationDensityUpdate(val)

\* animate with the pointer off screen, particleSystem.update included
FullFrame ==
    /\ animate(Null, Null)
    /\ \E rnd \in ReturnDraws :
          update(UpdateArgs(PSTime, mouse3D', dispersionState'.current,
                            config.twinkleSpeed, config.snowDensity,
                            config.snowSpeed, config.treeDensity,
                            config.decorationDensity), rnd)
    /\ UNCHANGED <<config, cardVars, sysVars>>

ReturnNext ==
    Explode \/ Return \/ TreeDensityUpdate \/ DecorationDensityUpdate \/ FullFrame
ReturnSpec == ReturnInit /\ [][ReturnNext]_vars /\ WF_vars(FullFrame)

\* The card flow: frames with the pointer on a card's hit box or off the
\* scene, clicks, close signals (the viewer's button, or Escape at any time)
\* and gsap ticks.  A frame is animate with ornamentSystem.update; the
\* dispersion stays where init() put it and the particle engine, which
\* shares no state with the cards, is left as constructed.
OrnamentFrame ==
    /\ \E hit \in CardHitBoxes \cup {Null}, point \in HitPoints : animate(hit, point)
    /\ ornamentUpdate(dispersionState'.current)
    /\ UNCHANGED <<cardTweens, loads, customImages, selectedSince, requested,
                   lastStore>>
    /\ UNCHANGED <<config, psVars, sysVars>>

Click == onClick /\ UNCHANGED <<config, psVars, sysVars>>

Close == closeViewer /\ UNCHANGED <<config, psVars, sysVars>>

CardTick == cardTick /\ UNCHANGED <<config, psVars, sysVars>>

CardNext == OrnamentFrame \/ Click \/ Close \/ CardTick
CardSpec == Init /\ [][CardNext]_vars

\* The store and the textures: uploads stored under any id, upload triggers,
\* direct texture updates and the completion of texture loads in any order.
UpdateImage ==
    /\ \E id \in StoreIds, base64 \in Srcs : updateOrnamentImage(id, base64)
    /\ UNCHANGED <<config, psVars, sysVars>>

UploadTrigger ==
    /\ \E id \in StoreIds : handleUploadTrigger(id)
    /\ UNCHANGED <<config, psVars, sysVars>>

UpdateTexture ==
    /\ \E id \in StoreIds, src \in Srcs \ {""} :
          /\ updateTexture(id, src)
          /\ lastStore' = [op |-> "updateTexture", id |-> id, src |-> src,
                           result |-> ""]
    /\ UNCHANGED <<treeVars, orn, cardTweens, customImages, selectedSince>>
    /\ UNCHANGED <<config, psVars, sysVars>>

TextureLoaded ==
    /\ \E l \in loads : textureLoaded(l)
    /\ UNCHANGED <<config, psVars, sysVars>>

StoreNext == UpdateImage \/ UploadTrigger \/ UpdateTexture \/ TextureLoaded
StoreSpec == Init /\ [][StoreNext]_vars

\* The theme selector: theme names, known and unknown, handed to
\* handleThemeUpdate at any time of the entrance and between update frames.
\* Every step records the operation in lastEvent.
ColorThemes == {"classic", "icy", "golden", "neon"}

Stamp(op) ==
    /\ lastEvent' = [op |-> op, arg |-> Null]
    /\ UNCHANGED <<dispersionState, autoRotate, controls, hoveredObject,
                   mouse3D, cursor, viewerVisible, selectedOrnament, walkEnded,
                   config, cardVars, sysVars>>

ThemeUpdate == \E theme \in ColorThemes, rnd \in PSDraws : handleThemeUpdate(theme, rnd)

ThemeEntrance ==
    /\ \E erupt \in [DOMAIN particles -> EruptTargets] : animateEntrance(erupt)
    /\ Stamp("entrance")

ThemeTick == gsapTick /\ Stamp("tick")

ThemeFrame ==
    /\ \E dispersion \in PSDispersions, rnd \in PSDraws :
          update(UpdateArgs(PSTime, Null, dispersion, config.twinkleSpeed,
                            config.snowDensity, config.snowSpeed,
                            config.treeDensity, config.decorationDensity), rnd)
    /\ Stamp("update")

ColorNext == ThemeUpdate \/ ThemeEntrance \/ ThemeTick \/ ThemeFrame
ColorSpec == InitPS /\ [][ColorNext]_vars

\* The whole frame.  The run starts where the entrance has run to its end.
\* The user moves the pointer and the dispersion slider; every frame is
\* animate from its first line to its last, the ray hitting a card's hit
\* box, the hit volume or nothing.
FrameHits == {CardHitBox(1), hitMesh, Null}
FrameDispersions == {0, 3}
\* where the pointer is moved to, and the velocity drawn for the trail
FramePointers == {<<"screen", 1>>}
FrameDustDraws == {[i \in 1..PoolSize |-> 100]}

WholeFrame ==
    /\ \E hit \in FrameHits, point \in HitPoints, rnd \in ReturnDraws :
          animateFrame(PSTime, hit, point, rnd)
    /\ UNCHANGED <<config, cardTweens, loads, customImages, selectedSince,
                   requested, lastStore>>

PointerMove ==
    /\ \E pos \in FramePointers, draws \in FrameDustDraws : onPointerMove(pos, draws)
    /\ UNCHANGED <<config, psVars, cardVars>>

Slider ==
    /\ \E v \in FrameDispersions : handleControlUpdate(v)
    /\ UNCHANGED <<config, psVars, cardVars, sysVars>>

FrameNext == WholeFrame \/ PointerMove \/ Slider
FrameSpec == ReturnInit /\ [][FrameNext]_vars

\* The snow: update called with any snow density and with snow speeds that
\* take a flake through the floor within a few frames, during the entrance
\* and after it.
\* <<snowDensity, snowSpeed>>
SnowInputs == {<<10, 1000>>, <<10, 0>>, <<5, 1000>>, <<25, 2000>>}

SnowEntrance ==
    /\ \E erupt \in [DOMAIN particles -> EruptTargets] : animateEntrance(erupt)
    /\ Stamp("entrance")

SnowTick == gsapTick /\ Stamp("tick")

SnowUpdate ==
    /\ \E dispersion \in PSDispersions, in \in SnowInputs, rnd \in PSDraws :
          update(UpdateArgs(PSTime, Null, dispersion, config.twinkleSpeed,
                            in[1], in[2], config.treeDensity,
                            config.decorationDensity), rnd)
    /\ Stamp("update")

SnowNext == SnowEntrance \/ SnowTick \/ SnowUpdate
SnowSpec == InitPS /\ [][SnowNext]_vars

\* The component from onMounted to after onUnmounted: window delivers an
\* event to the handler for as long as the listener is registered, and the
\* browser runs a frame for as long as one is requested.  The particle
\* engine, which no event handler reaches, is left as constructed.
MountDeltas == {-1500, 1500}
MountHits == {CardHitBox(1), Null}

WheelEvent ==
    /\ "wheel" \in listeners
    /\ \E deltaY \in MountDeltas : onWheel(deltaY)
    /\ UNCHANGED <<config, psVars, cardVars, sysVars>>

PointerMoveEvent ==
    /\ "pointermove" \in listeners
    /\ \E pos \in FramePointers, draws \in FrameDustDraws : onPointerMove(pos, draws)
    /\ UNCHANGED <<config, psVars, cardVars>>

ClickEvent ==
    /\ "click" \in listeners
    /\ onClick
    /\ UNCHANGED <<config, psVars, sysVars>>

AnimationFrame ==
    /\ frameArmed
    /\ \E hit \in MountHits, point \in HitPoints : animate(hit, point)
    /\ UNCHANGED <<config, psVars, cardVars, sysVars>>

Unmount == onUnmounted /\ UNCHANGED <<config, psVars, cardVars>>

MountNext ==
    WheelEvent \/ PointerMoveEvent \/ ClickEvent \/ AnimationFrame \/ Unmount
MountSpec == Init /\ [][MountNext]_vars

\* The stardust pool by itself: bursts and trails at any point, of any
\* amount, between updates.
DustPoints == HitPoints \cup {Unprojected(pos) : pos \in FramePointers}
DustAmounts == {1, BurstAmount}
\* the velocities drawn by a call of spawn, the same for every slot
DustDraws == {[i \in 1..PoolSize |-> v] : v \in DustVelocities}

\* the call recorded in lastEvent; everything but the pool stays as it is
DustStamp(op, amount) ==
    /\ lastEvent' = [op |-> op, arg |-> <<"amount", amount>>]
    /\ UNCHANGED <<dispersionState, autoRotate, controls, hoveredObject,
                   mouse3D, cursor, viewerVisible, selectedOrnament, walkEnded,
                   config, psVars, cardVars>>
    /\ UNCHANGED <<pointer, listeners, frameArmed, lastOrnCall, drawn>>

Spawn ==
    \E position \in DustPoints, amount \in DustAmounts, draws \in DustDraws :
        spawn(position, amount, draws) /\ DustStamp("spawn", amount)

SpawnTrail ==
    \E position \in DustPoints, draws \in DustDraws :
        spawnTrail(position, draws) /\ DustStamp("spawnTrail", TrailAmount)

DustUpdate == dustUpdate /\ DustStamp("update", 0)

DustNext == Spawn \/ SpawnTrail \/ DustUpdate
DustSpec == Init /\ [][DustNext]_vars

(***************************************************************************)
(* Claims about the scene component                                        *)
(***************************************************************************)
InRange(x) == 0 <= x /\ x <= 150

RECURSIVE WheelRepeat(_, _, _)
WheelRepeat(target, deltaY, n) ==
    IF n = 0 THEN target ELSE WheelRepeat(WheelTarget(target, deltaY), deltaY, n - 1)

\* C1: every wheel event sets dispersionState.target to
\* clamp(previous target + deltaY * 0.001, 0, 1.5) and changes nothing else of
\* the pair, so the target it leaves is in [0, 1.5]; from 0, one event with
\* deltaY = 500 gives 0.5 and ten of them give exactly 1.5.
C1_WheelClampsTarget ==
    [][ /\ lastEvent'.op = "wheel" =>
             LET sum == dispersionState.target + lastEvent'.arg[2] \div 10
             IN /\ dispersionState'.target =
                     (IF sum < 0 THEN 0 ELSE IF sum > 150 THEN 150 ELSE sum)
                /\ InRange(dispersionState'.target)
                /\ dispersionState'.current = dispersionState.current
        /\ WheelRepeat(0, 500, 1) = 50
        /\ WheelRepeat(0, 500, 10) = 150 ]_vars

\* a wheel event with deltaY = 500 has saturated the target at 1.5
C1_Witness ==
    /\ lastEvent.op = "wheel"
    /\ lastEvent.arg[2] = 500
    /\ dispersionState.target = 150

\* C2: in every reachable state dispersionState.current and
\* dispersionState.target lie in [0, 1.5], whatever value handleControlUpdate
\* was given.
C2_DispersionInRange ==
    /\ InRange(dispersionState.current)
    /\ InRange(dispersionState.target)

TargetIsMax == dispersionState.target = 150

\* current is within 1% of 1.5
NearMax ==
    /\ 100 * (150 - dispersionState.current) <= 150
    /\ 100 * (dispersionState.current - 150) <= 150

EasedOrRetargeted == ~TargetIsMax \/ NearMax

\* a frame leaves the target alone and the gap to it at most 0.95 of what it
\* was, less than a grid step below that, and on the same side
FrameShrinksGap ==
    lastEvent'.op = "frame" =>
        LET gap == dispersionState.target - dispersionState.current
            gapAfter == dispersionState'.target - dispersionState'.current
        IN /\ dispersionState'.target = dispersionState.target
           /\ gap * gapAfter >= 0
           /\ 20 * Abs(gapAfter) <= 19 * Abs(gap)
           /\ 20 * Abs(gapAfter) > 19 * Abs(gap) - 20

\* C3: every frame, with or without input, moves current toward target by 5%
\* of the gap, so the gap shrinks by the factor 0.95 per frame; once the
\* target is 1.5 the frames bring current within 1% of 1.5, unless the target
\* is changed first.
C3_EasesToTarget ==
    /\ [][FrameShrinksGap]_vars
    /\ TargetIsMax ~> EasedOrRetargeted

\* a frame has brought current from below to within 1% of a target of 1.5
C3_Witness ==
    /\ lastEvent.op = "frame"
    /\ dispersionState.target = 150
    /\ dispersionState.current \in {149, 150}

\* C10: a frame whose nearest hit is a card's plane, frame or hit box leaves
\* that card's root mesh as the hover target; the hover target is always
\* nothing, the hit volume or a card root; the walk up the parents ends.
C10_HoverResolvesToRoot ==
    /\ hoveredObject \in {Null, <<"hitMesh", 0>>} \cup {<<"mesh", c>> : c \in Cards}
    /\ walkEnded
    /\ \A c \in Cards :
         (/\ lastEvent.op = "frame"
          /\ lastEvent.arg \in {<<"mesh", c>>, <<"frame", c>>, <<"hitBox", c>>})
         => hoveredObject = <<"mesh", c>>

\* a frame's ray has met a card's hit box first
C10_Witness ==
    /\ lastEvent.op = "frame"
    /\ lastEvent.arg \in CardHitBoxes
    /\ hoveredObject \in CardRoots

(***************************************************************************)
(* Claims about the particle engine                                        *)
(***************************************************************************)
\* the references held by the tree-attached lists
TreeAttached ==
    UNION {{lists[n][i] : i \in DOMAIN lists[n]} :
              n \in {"foliage", "decoration", "trunk", "gift", "candy"}}

AllAtTarget ==
    \A ref \in TreeAttached :
        particles[ref].currentPosition = particles[ref].targetPosition

\* the dispersion has reached 1.5 and its target has just been set to 0
ReturnRequested ==
    /\ lastEvent.op = "control"
    /\ lastEvent.arg[2] = 0
    /\ dispersionState.current = 150

ReturnedOrRetargeted == AllAtTarget \/ dispersionState.target # 0

\* C4: once the dispersion was at 1.5 and its target is set to 0, the frames
\* bring every tree-attached particle back to its targetPosition (unless the
\* target is changed again), whatever tree and decoration densities are in
\* force on the way.
C4_AllReturnToTarget == ReturnRequested ~> ReturnedOrRetargeted

\* the mesh index the claims give each population
ClaimedMesh ==
    [foliage |-> 0, decoration |-> 1, trunk |-> 2, snow |-> 3, aura |-> 4,
     gift |-> 5, candy |-> 6]

\* the density the claims give each culled population, out of a call's
\* arguments
ClaimedDensity(call, n) ==
    IF n \in {"foliage", "trunk"} THEN call.treeDensity
    ELSE IF n = "snow" THEN call.snowDensity
    ELSE call.decorationDensity

\* the slots of a mesh that hold a transform composed from a particle
RealSlots(ms, k) == {j \in DOMAIN ms[k] : ms[k][j].particle # 0}

\* C5: over two successive calls of update, for every tree-attached
\* population, the slots drawn with real transforms are a prefix of the
\* slots both times, and those of the call with the lower density are
\* among those of the call with the higher one.
C5_CullingMonotonic ==
    [][ (lastCall.op = "update" /\ lastCall'.op = "update") =>
          \A n \in {"foliage", "decoration", "trunk", "gift", "candy"} :
             LET before == RealSlots(meshes, ClaimedMesh[n])
                 after == RealSlots(meshes', ClaimedMesh[n])
                 d1 == ClaimedDensity(lastCall, n)
                 d2 == ClaimedDensity(lastCall', n)
             IN /\ before = 1..Cardinality(before)
                /\ after = 1..Cardinality(after)
                /\ d1 <= d2 => before \subseteq after
                /\ d2 <= d1 => after \subseteq before ]_vars

\* an update at tree density 0.5 has left the first of two trunk slots real
C5_Witness ==
    /\ lastCall.op = "update"
    /\ lastCall.treeDensity = 5
    /\ Len(meshes[2]) = 2
    /\ RealSlots(meshes, 2) = {1}

\* C6: after a call of update, in every tree-attached population and in the
\* snow, slot i (counted from 0) holds the transform of the list's particle
\* i when i < floor(count * density) and the zero-scale matrix otherwise,
\* the density being treeDensity for foliage and trunk, decorationDensity
\* for decoration, gift and candy, snowDensity for snow.
C6_FirstSlotsReal ==
    lastCall.op = "update" =>
        \A n \in {"foliage", "decoration", "trunk", "gift", "candy", "snow"} :
            LET slots == meshes[ClaimedMesh[n]]
                count == Len(lists[n])
                visible == (count * ClaimedDensity(lastCall, n)) \div 10
            IN /\ Len(slots) = count
               /\ \A j \in 1..count :
                     IF j - 1 < visible
                     THEN slots[j].particle = lists[n][j]
                     ELSE slots[j] = [position |-> 0, scale |-> 0, particle |-> 0]

\* an update at tree density 0.5 and decoration density 1.0 has left the
\* second trunk slot zero and the first real, after the entrance gave the
\* particle its scale
C6_Witness ==
    /\ lastCall.op = "update"
    /\ lastCall.treeDensity = 5
    /\ lastCall.decorationDensity = 10
    /\ Len(meshes[2]) = 2
    /\ meshes[2][1].particle # 0
    /\ meshes[2][1].scale > 0
    /\ meshes[2][2].particle = 0

\* C7: whatever densities update is called with, the indices it reads from
\* a list and writes to its mesh lie in 0..size-1, and the number of slots
\* drawn with real transforms lies in 0..size.
C7_DensityClamped ==
    \A n \in DOMAIN ClaimedMesh :
        LET size == Len(lists[n])
        IN /\ Len(meshes[ClaimedMesh[n]]) = size
           /\ touched[n].reads \subseteq 0..(size - 1)
           /\ touched[n].writes \subseteq 0..(size - 1)
           /\ Cardinality(RealSlots(meshes, ClaimedMesh[n])) \in 0..size

\* update has run with a tree density of 2.5, a decoration density of 0 and
\* a snow density of 1.5, and has read both trunk particles
C7_Witness ==
    /\ lastCall.op = "update"
    /\ lastCall.treeDensity = 25
    /\ lastCall.decorationDensity = 0
    /\ lastCall.snowDensity = 15
    /\ touched["trunk"].reads = {0, 1}

\* C8: every particle is referred to by exactly one list, once, and that
\* list is the one of its type; createMeshes, initInstances and update bind
\* every list to the same mesh, foliage 0, decoration 1, trunk 2, snow 3,
\* aura 4, gift 5, candy 6; and a slot of that mesh holds either no
\* particle or the list's particle of the same index.
C8_OneListOneMesh ==
    /\ \A ref \in DOMAIN particles :
          /\ \A n \in DOMAIN ClaimedMesh :
                (\E i \in DOMAIN lists[n] : lists[n][i] = ref)
                    <=> n = particles[ref].type
          /\ Cardinality({i \in DOMAIN lists[particles[ref].type] :
                             lists[particles[ref].type][i] = ref}) = 1
    /\ \A n \in DOMAIN ClaimedMesh :
          /\ CreateOrder[ClaimedMesh[n] + 1] = n
          /\ InitMeshOf(n) = ClaimedMesh[n]
          /\ UpdateMeshOf(n) = ClaimedMesh[n]
          /\ Len(meshes[ClaimedMesh[n]]) = Len(lists[n])
          /\ \A j \in RealSlots(meshes, ClaimedMesh[n]) :
                meshes[ClaimedMesh[n]][j].particle = lists[n][j]

\* update has drawn a gift from mesh 5
C8_Witness ==
    /\ lastCall.op = "update"
    /\ Len(lists["gift"]) = 1
    /\ particles[lists["gift"][1]].type = "gift"
    /\ meshes[5][1].particle = lists["gift"][1]

\* C9: no step changes a population list or the number of particle
\* records, and a reference keeps referring to the record of the same id
\* and type.
C9_ListsStable ==
    [][ /\ lists' = lists
        /\ DOMAIN particles' = DOMAIN particles
        /\ \A ref \in DOMAIN particles :
              /\ particles'[ref].id = particles[ref].id
              /\ particles'[ref].type = particles[ref].type ]_vars

\* animateEntrance, updateColors with the icy theme and an update that
\* culls half of the trunk have all run
C9_Witness ==
    /\ entered
    /\ lastCall.op = "update"
    /\ lastCall.treeDensity = 5
    /\ \E ref \in DOMAIN particles :
          particles[ref].color \in {"#001a33..#80d4ff", "#ffffff", "#0044cc"}
          /\ particles[ref].type \in {"foliage", "decoration"}


(***************************************************************************)
(* Claims about the frame's no-hit branch                                  *)
(***************************************************************************)
NoHitFrame == lastEvent.op = "frame" /\ lastEvent.arg = Null

\* C11: a frame whose ray cast hits nothing leaves the pointer-in-world
\* position and the hover target cleared, the default cursor, and the
\* controls' auto-rotation equal to the auto-rotate flag the user configured.
C11_NoHitRestoresAutoRotate ==
    NoHitFrame =>
        /\ mouse3D = Null
        /\ hoveredObject = Null
        /\ cursor = ""
        /\ controls.autoRotate = autoRotate


(***************************************************************************)
(* Claims about the card flow                                              *)
(***************************************************************************)
TweensOn(tws, c) == SelectSeq(tws, LAMBDA tw : tw.card = c)
TweensOnProp(tws, c, prop) ==
    SelectSeq(tws, LAMBDA tw : tw.card = c /\ tw.prop = prop)

\* C12: while a card is selected, from the click that starts its pull-out
\* until the close signal, a click starts no tween, selects no other card
\* and changes no card state.
C12_ClicksIgnoredWhileSelected ==
    [][ (lastEvent'.op = "click" /\ selectedSince # {}) =>
            UNCHANGED <<orn, cardTweens, selectedSince, viewerVisible,
                        selectedOrnament>> ]_vars

\* C13: from the click that selects a card until the close signal, a frame
\* (OrnamentSystem.update) does not change the card's position.
C13_UpdateSkipsSelected ==
    [][ lastEvent'.op = "frame" =>
            \A c \in selectedSince : orn'[c].position = orn[c].position ]_vars

\* C14: at no time do two tweens run on the same property (position or
\* scale) of the same card: a tween started on it replaces the running one.
C14_OneTweenPerProperty ==
    \A c \in Cards :
        /\ Len(TweensOnProp(cardTweens, c, "position")) <= 1
        /\ Len(TweensOnProp(cardTweens, c, "scale")) <= 1

\* a click has replaced tweens of the card that were half way: the scale,
\* which only tweens write, is neither the original nor the enlarged one
C14_Witness ==
    /\ lastEvent.op = "click"
    /\ \E c \in Cards :
          /\ Len(TweensOnProp(cardTweens, c, "scale")) = 1
          /\ TweensOnProp(cardTweens, c, "scale")[1].step = 0
          /\ orn[c].scale # OriginalScale(c)
          /\ orn[c].scale # PullOutScaleOf(OriginalScale(c))

\* C15: a card whose selection tween has completed has scale =
\* originalScale * 1.5 and position = originalPosition + 2 units along the
\* normalized (x, 0, z) of originalPosition, its height unchanged.
C15_PullOutIsHorizontal ==
    \A c \in Cards :
        orn[c].isExpanded =>
            /\ orn[c].scale = PullOutScaleOf(OriginalScale(c))
            /\ orn[c].position =
                   VecAdd(OriginalPosition(c),
                          HorizontalPullOut(OriginalPosition(c)))
            /\ orn[c].position[2] = OriginalPosition(c)[2]

CardAtRest(o, tws, c) == ~o[c].isExpanded /\ TweensOn(tws, c) = <<>>

\* C16: the close signal clears isExpanded on every card, starts the return
\* tweens of the cards that were flagged and touches no other card; a card
\* that is not expanded and has no tween left is at its originalPosition with
\* its originalScale.
C16_CloseRoundTrip ==
    [][ /\ lastEvent'.op = "close" =>
             \A c \in Cards :
                 /\ ~orn'[c].isExpanded
                 /\ orn[c].isExpanded =>
                       /\ TweensOn(cardTweens', c) =
                              TweensOn(cardTweens, c) \o
                              << NewCardTween(c, "position", OriginalPosition(c),
                                              "power2.inOut", ReturnTicks, FALSE),
                                 NewCardTween(c, "scale", OriginalScale(c),
                                              "power2.inOut", ReturnTicks, FALSE) >>
                 /\ ~orn[c].isExpanded =>
                       /\ orn'[c] = orn[c]
                       /\ TweensOn(cardTweens', c) = TweensOn(cardTweens, c)
        /\ \A c \in Cards :
               CardAtRest(orn', cardTweens', c) =>
                   /\ orn'[c].position = OriginalPosition(c)
                   /\ orn'[c].scale = OriginalScale(c)
      ]_vars

\* the last return tween has just completed: every card is back
C16_Witness ==
    /\ lastEvent.op = "tick"
    /\ cardTweens = <<>>
    /\ selectedSince = {}
    /\ \A c \in Cards : /\ ~orn[c].isExpanded
                        /\ orn[c].position = OriginalPosition(c)
                        /\ orn[c].scale = OriginalScale(c)

(***************************************************************************)
(* Claims about the textures and the store                                 *)
(***************************************************************************)
\* what a card is apart from the image its material shows
CardBody(o, c) == [position |-> o[c].position, scale |-> o[c].scale,
                   isExpanded |-> o[c].isExpanded]

TextureCall(op) == op \in {"updateTexture", "uploadTrigger"}

\* C17: updateTexture with an id no card has changes nothing and starts no
\* load; with a card's id it starts a load for that card only, and the load,
\* when it completes, changes that card's material map only; no card's
\* position, scale or isExpanded flag changes.
C17_TextureUpdateIsLocal ==
    [][ /\ \A c \in Cards : CardBody(orn', c) = CardBody(orn, c)
        /\ TextureCall(lastStore'.op) =>
              /\ orn' = orn
              /\ \A l \in loads' \ loads : CardId(l.card) = lastStore'.id
              /\ (\A c \in Cards : CardId(c) # lastStore'.id) => loads' = loads
        /\ lastStore'.op = "loaded" =>
              \A c \in Cards : CardId(c) # lastStore'.id => orn'[c] = orn[c]
      ]_vars

\* a call with the unknown id has been made after an upload to the first
\* card was loaded
C17_Witness ==
    /\ lastStore.op = "updateTexture"
    /\ lastStore.id = UnknownId
    /\ orn[1].map = "data:a"
    /\ orn[2].map # "data:a"

\* the defaults getOrnamentSrc is asked with
Defaults == Srcs \cup {DefaultSrc}

\* the effect of updateOrnamentImage(id, s) that is common to every s: the
\* other ids are unaffected, and an id without override gives the default
OthersUnaffected ==
    /\ \A other \in StoreIds \ {lastStore'.id}, d \in Defaults :
          getOrnamentSrc(customImages', other, d) =
              getOrnamentSrc(customImages, other, d)
    /\ \A id \in StoreIds, d \in Defaults :
          customImages'[id] = Undefined =>
              getOrnamentSrc(customImages', id, d) = d

\* C18 as stated: after updateOrnamentImage(id, s), getOrnamentSrc(id, d)
\* returns s for every default d; the latest override wins, the overrides
\* of other ids are unaffected and an id with no override returns d.
C18_OverrideWins ==
    [][ lastStore'.op = "updateOrnamentImage" =>
            /\ \A d \in Defaults :
                  getOrnamentSrc(customImages', lastStore'.id, d) = lastStore'.src
            /\ OthersUnaffected ]_vars

\* C18, amended: after updateOrnamentImage(id, s) with a non-empty s,
\* getOrnamentSrc(id, d) returns s for every default d, and with the empty s
\* it returns d; the latest override wins, the overrides of other ids are
\* unaffected and an id with no override returns d.
C18_NonEmptyOverrideWins ==
    [][ lastStore'.op = "updateOrnamentImage" =>
            /\ \A d \in Defaults :
                  getOrnamentSrc(customImages', lastStore'.id, d) =
                      (IF lastStore'.src # "" THEN lastStore'.src ELSE d)
            /\ OthersUnaffected ]_vars

\* the first card's override has been replaced by a later one while the
\* other id keeps its own
C18_Witness ==
    /\ lastStore = [op |-> "updateOrnamentImage", id |-> CardId(1),
                    src |-> "data:b", result |-> ""]
    /\ customImages[CardId(1)] = "data:b"
    /\ customImages[UnknownId] = "data:a"

(***************************************************************************)
(* Claims about the particles' scale and colours                           *)
(***************************************************************************)
\* C19: in every state reached by the entrance animation and any number of
\* update frames, every particle's currentScale is at least 0 and at most
\* baseScale * 3.
C19_ScaleBounded ==
    \A ref \in DOMAIN particles :
        /\ particles[ref].currentScale >= 0
        /\ particles[ref].currentScale <= 3 * particles[ref].baseScale

\* an update frame has run while an entrance tween was past its target
C19_Witness ==
    /\ entered
    /\ lastCall.op = "update"
    /\ \E ref \in DOMAIN particles :
          particles[ref].currentScale > particles[ref].baseScale

\* the theme a name is taken for
EffectiveTheme(name) == IF name \in {"icy", "golden"} THEN name ELSE "classic"

ClaimedPalette ==
    [icy |-> {"#ffffff", "#00ffff", "#0044cc"},
     golden |-> {"#ffd700", "#ffec8b", "#b8860b"},
     classic |-> {"#FFD700", "#FF0000", "#C0C0C0", "#00BFFF"}]

ClaimedGradient ==
    [icy |-> "#001a33..#80d4ff", golden |-> "#221100..#ffaa00",
     classic |-> "#0f3b0f..#2ecc71"]

\* C20: updateColors(theme) changes, in one step, only the color field of
\* foliage and decoration particles: a decoration gets a colour of the
\* theme's palette, a foliage particle a colour between the theme's two
\* gradient endpoints, a name other than icy and golden counts as classic;
\* positions, scales, explosion vectors, lists, meshes and the colours of
\* all other particles stay as they are.
C20_ColorsOnly ==
    [][ lastEvent'.op = "theme" =>
          LET theme == EffectiveTheme(lastEvent'.arg[1])
          IN /\ lists' = lists
             /\ meshes' = meshes
             /\ tweens' = tweens
             /\ DOMAIN particles' = DOMAIN particles
             /\ \A ref \in DOMAIN particles :
                   /\ [particles'[ref] EXCEPT !.color = particles[ref].color]
                          = particles[ref]
                   /\ particles[ref].type = "decoration" =>
                          particles'[ref].color \in ClaimedPalette[theme]
                   /\ particles[ref].type = "foliage" =>
                          particles'[ref].color = ClaimedGradient[theme]
                   /\ particles[ref].type \notin {"foliage", "decoration"} =>
                          particles'[ref].color = particles[ref].color
      ]_vars

\* an unknown theme name has given a decoration a colour of the classic
\* palette that it did not start with
C20_Witness ==
    /\ lastEvent.op = "theme"
    /\ lastEvent.arg[1] = "neon"
    /\ \E ref \in DOMAIN particles :
          /\ particles[ref].type = "decoration"
          /\ particles[ref].color = "#C0C0C0"


(***************************************************************************)
(* Claims about the whole frame                                            *)
(***************************************************************************)
\* C21: within a frame the steps run in a fixed order: the easing and the
\* hover resolution come first, particleSystem.update and
\* ornamentSystem.update are handed the pointer position and the
\* dispersionState.current they leave behind, both the same value, and
\* composer.render is issued with what the updates have written.
C21_FrameOrder ==
    [][lastEvent'.op = "frame" =>
          /\ dispersionState'.current =
                EaseCurrent(dispersionState.current, dispersionState.target)
          /\ lastCall'.op = "update"
          /\ lastCall'.dispersion = dispersionState'.current
          /\ lastCall'.mousePos = mouse3D'
          /\ lastOrnCall'.op = "update"
          /\ lastOrnCall'.dispersion = lastCall'.dispersion
          /\ drawn' = [op |-> "render", meshes |-> meshes', cards |-> orn',
                       dust |-> dust']]_vars

\* a frame that eased the dispersion, with the pointer on the hit volume and
\* a live stardust particle, has been drawn
C21_Witness ==
    /\ lastEvent.op = "frame"
    /\ lastCall.dispersion > 0
    /\ lastCall.dispersion < dispersionState.target
    /\ lastCall.mousePos # Null
    /\ LiveCount(drawn.dust) > 0
    /\ \E c \in Cards : drawn.cards[c].position # OriginalPosition(c)

(***************************************************************************)
(* Claims about the entrance and the snow                                  *)
(***************************************************************************)
\* the entrance tween of the particle's position is in flight
InFlight(ref) ==
    \E tw \in tweens : tw.ref = ref /\ tw.prop = "currentPosition"

\* C22: while the entrance tween of a tree particle's currentPosition is in
\* flight, no step but the ticks of that tween moves the particle: the
\* per-frame update leaves its currentPosition alone until the entrance is
\* complete.
C22_EntranceExclusive ==
    [][tweens' = tweens =>
          \A ref \in SeqRange(AllTreeParticles(lists)) :
              InFlight(ref) =>
                  particles'[ref].currentPosition = particles[ref].currentPosition]_vars

\* the snow particle at index i of the list, counted from 0
SnowRef(i) == lists["snow"][i + 1]

\* C23: after a call of update with snowSpeed >= 0 every visible flake is at
\* y >= -10; a flake that the frame's fall takes below -10 is at y = 30
\* after the same call, with x redrawn in [-40, 40], every other visible
\* flake has fallen or stayed and kept its x; the outcome does not depend
\* on the dispersion handed to the call, and a hidden flake is not moved.
C23_SnowWraps ==
    [][lastEvent'.op = "update" /\ lastCall'.snowSpeed >= 0 =>
          \A i \in 0..(Len(lists["snow"]) - 1) :
              LET before == particles[SnowRef(i)]
                  after == particles'[SnowRef(i)]
              IN IF i < (Len(lists["snow"]) * lastCall'.snowDensity) \div 10
                 THEN /\ after.currentPosition >= SnowFloor
                      /\ \/ /\ after.currentPosition <= before.currentPosition
                            /\ after.currentX = before.currentX
                         \/ /\ after.currentPosition = SnowTop
                            /\ after.currentX \in -40..40
                      /\ \A d \in PSDispersions :
                            \E rnd \in PSDraws :
                                after = UpdatedParticle(SnowRef(i),
                                            [lastCall' EXCEPT !.dispersion = d], rnd)
                 ELSE after = before]_vars

\* a call of update has taken a visible flake through the floor and put it
\* back at the top with a new x
C23_Witness ==
    /\ lastEvent.op = "update"
    /\ lastCall.snowSpeed > 0
    /\ lastCall.dispersion > 0
    /\ Len(lists["snow"]) * lastCall.snowDensity >= 10
    /\ particles[SnowRef(0)].currentPosition = SnowTop
    /\ particles[SnowRef(0)].currentX # 0

(***************************************************************************)
(* Claims about the order of texture loads                                 *)
(***************************************************************************)
\* C24: once no load for a card is under way, the card's material shows the
\* image of the last load requested for it: that of the last updateTexture
\* call for the card, or the default image of createOrnaments if there was
\* none, in whatever order the loads completed.
C24_LastRequestedShown ==
    \A c \in Cards :
        (\A l \in loads : l.card # c) => orn[c].map = requested[c]

(***************************************************************************)
(* Claims about the selection of cards                                     *)
(***************************************************************************)
\* the pull-out of the card is under way: gsap holds its scale tween, the
\* one that carries onComplete
PullingOut(c) ==
    \E i \in DOMAIN cardTweens : cardTweens[i].card = c /\ cardTweens[i].onComplete

\* C25: at most one card is selected at any time: while one card is being
\* pulled out or is flagged isExpanded, no other card is being pulled out or
\* flagged isExpanded.
C25_AtMostOneSelected ==
    Cardinality({c \in Cards : PullingOut(c) \/ orn[c].isExpanded}) <= 1

\* C26: a card is flagged isExpanded only if the viewer is visible; the
\* viewer is visible only if selectedOrnament is non-null and belongs to a
\* card flagged isExpanded; and after a close signal the viewer is hidden,
\* selectedOrnament is null and no card is flagged isExpanded.
C26_ViewerConsistent ==
    /\ \A c \in Cards : orn[c].isExpanded => viewerVisible
    /\ viewerVisible =>
          /\ selectedOrnament # Null
          /\ \E c \in Cards : CardId(c) = selectedOrnament /\ orn[c].isExpanded
    /\ lastEvent.op = "close" =>
          /\ ~viewerVisible
          /\ selectedOrnament = Null
          /\ \A c \in Cards : ~orn[c].isExpanded

\* a close signal has just acted on a viewer that showed a card: the viewer
\* is hidden and the card's return tweens have been started
C26_Witness ==
    /\ lastEvent.op = "close"
    /\ \E i \in DOMAIN cardTweens :
          cardTweens[i].ticks = ReturnTicks /\ cardTweens[i].step = 0


(***************************************************************************)
(* Claims about the pointer and the auto-rotation after a frame            *)
(***************************************************************************)
\* C27: after a frame, the pointer-in-world position handed to
\* ParticleSystem.update is non-null only if the nearest hit of that frame's
\* ray was the hit volume: with a card or nothing under the pointer no hit
\* point of an earlier frame is used.
C27_PointerFresh ==
    (lastEvent.op = "frame" /\ lastCall.mousePos # Null) => lastEvent.arg = hitMesh

\* C28: at the end of every frame in which dispersionState.current > 0.1,
\* controls.autoRotate is false, whatever the ray of the frame hit.
C28_NoAutoRotateWhenExploded ==
    (lastEvent.op = "frame" /\ dispersionState.current > ExplodedAbove)
        => ~controls.autoRotate

(***************************************************************************)
(* Claims about unmounting                                                 *)
(***************************************************************************)
\* the component has been unmounted
Unmounted == "click" \notin listeners

\* C29: the step that unmounts the component removes every listener init
\* registered and leaves no frame pending, and no step after it changes
\* dispersionState, the pointer or a card.
C29_UnmountedIsQuiet ==
    [][/\ lastEvent'.op = "unmount" => listeners' = {} /\ ~frameArmed'
       /\ Unmounted =>
             /\ dispersionState' = dispersionState
             /\ pointer' = pointer
             /\ orn' = orn
             /\ cardTweens' = cardTweens]_vars


(***************************************************************************)
(* Claims about the stardust pool                                          *)
(***************************************************************************)
DeadSlots(pool) == {i \in DOMAIN pool : pool[i].life <= 0}

\* the slots a step has brought to life
Activated == {i \in DeadSlots(dust) : dust'[i].life > 0}

\* C30: spawn(position, amount) activates exactly min(amount, number of
\* dead slots) slots, the dead slots of lowest index, and leaves every other
\* slot, the live ones above all, as it was: so a full pool makes spawn a
\* no-op, and after any sequence of spawn, spawnTrail and update the live
\* particles number at most the pool size.
C30_SpawnFillsDeadSlots ==
    [][/\ lastEvent'.op \in {"spawn", "spawnTrail"} =>
             LET amount == lastEvent'.arg[2]
                 dead == Cardinality(DeadSlots(dust))
             IN /\ Cardinality(Activated) = IF amount < dead THEN amount ELSE dead
                /\ \A i \in Activated : \A j \in DeadSlots(dust) :
                       j < i => j \in Activated
                /\ \A i \in Activated : dust'[i].life = LifeFrames
                /\ \A i \in DOMAIN dust \ Activated : dust'[i] = dust[i]
                /\ (dead = 0 => dust' = dust)
       /\ DOMAIN dust' = 1..PoolSize
       /\ LiveCount(dust') <= PoolSize]_vars

\* a burst has filled the dead slots of a pool that held a live particle
\* behind a dead slot: slot 1 was taken again, the live slot 2 was passed over
C30_Witness ==
    /\ lastEvent.op = "spawn"
    /\ lastEvent.arg[2] = BurstAmount
    /\ dust[1].life = LifeFrames
    /\ dust[2].life > 0 /\ dust[2].life < LifeFrames
    /\ dust[PoolSize].life = LifeFrames
=============================================================================
